---- MODULE Spec2Model ----
(***************************************************************************)
(* Extractify: the field extractors, the routes and the page of the web    *)
(* application.                                                            *)
(*                                                                         *)
(*   basic extractor     src/src/lib/fieldExtractor.ts                     *)
(*   enhanced extractor  src/unnamed/part_002 (enhancedFieldExtractor,     *)
(*                       the one POST /api/extract imports)                *)
(*   hybrid extraction   src/unnamed/part_003 (FastAPIClient and           *)
(*                       hybridExtraction)                                 *)
(*   database            src/unnamed/part_001 (dbOps over better-sqlite3)  *)
(*   routes              src/src/app/api/extract/route.ts,                 *)
(*                       src/src/app/api/conversations/route.ts and        *)
(*                       src/src/app/api/conversations/[id]/route.ts       *)
(*   page                src/EXTRACTION_BEFORE_AFTER.md (Home: the first   *)
(*                       and the final version of page.tsx),               *)
(*                       src/unnamed/part_005 (ConversationInput) and      *)
(*                       src/src/components/FileUpload.tsx                 *)
(*                                                                         *)
(* A conversation text is a TLA+ string.  The JavaScript regular           *)
(* expressions of the source are written as syntax trees and run by a      *)
(* backtracking matcher with the priority order of String.prototype.match  *)
(* (leftmost start, greedy quantifiers, alternatives left to right).       *)
(***************************************************************************)
EXTENDS Integers, Sequences, FiniteSets, TLC

VARIABLES
    text,       \* the conversation text handed to the extractors
    basic,      \* what fieldExtractor.extractAllFields(text) returned, or NoResult
    enhanced,   \* what enhancedFieldExtractor.extractAllFields(text) returned, or NoResult
    fastApiUrl,     \* process.env.FASTAPI_URL || NEXT_PUBLIC_FASTAPI_URL ("" when unset)
    hybrid,         \* the call hybridExtraction(text): where it is and its locals
    backendCalls,   \* the requests sent to the FastAPI backend, with their answers
    now,                \* the server's clock
    conversations,      \* the rows of table conversations, in rowid order
    extracted_fields,   \* the rows of table extracted_fields, in id order
    response,           \* the last response of a route, with its request
    client,     \* a call of FastAPIClient.extractFields or processBatch
    page,       \* the React state of the page (Home)
    reads,      \* the files whose FileReader has not called onload yet
    runs,       \* the calls of processConversation, in the order they started
    selects     \* the detail requests of handleConversationSelect, in the order sent

extractorVars == <<text, basic, enhanced>>
hybridVars == <<fastApiUrl, hybrid, backendCalls>>
serverVars == <<now, conversations, extracted_fields, response>>
clientVars == <<client>>
pageVars == <<page, reads, runs, selects>>

vars == <<text, basic, enhanced, fastApiUrl, hybrid, backendCalls,
          now, conversations, extracted_fields, response,
          client, page, reads, runs, selects>>

NA == "NA"
NoResult == [called |-> FALSE]

(***************************************************************************)
(* Characters and character classes.                                       *)
(***************************************************************************)
CharAt(s, i) == SubSeq(s, i, i)
CharsOf(s) == {CharAt(s, i) : i \in 1..Len(s)}

LowerLetters == "abcdefghijklmnopqrstuvwxyz"
UpperLetters == "ABCDEFGHIJKLMNOPQRSTUVWXYZ"
Digit == CharsOf("0123456789")
Lower == CharsOf(LowerLetters)
Upper == CharsOf(UpperLetters)
Alpha == Lower \cup Upper
AlphaNum == Alpha \cup Digit
\* \w
WordChar == AlphaNum \cup {"_"}
\* \s
WhiteSpace == {" ", "\t", "\n", "\r", "\f"}

\* the case folding of the /i flag
ToLowerChar(c) ==
    IF c \in Upper
    THEN CharAt(LowerLetters, CHOOSE i \in 1..Len(UpperLetters) : CharAt(UpperLetters, i) = c)
    ELSE c

RECURSIVE ToLower(_)
ToLower(s) == IF s = "" THEN "" ELSE ToLowerChar(Head(s)) \o ToLower(Tail(s))

(***************************************************************************)
(* Regular expression syntax trees.                                        *)
(***************************************************************************)
Chr(S) == [t |-> "chr", set |-> S]
Lit(str) == [t |-> "lit", str |-> str, ci |-> FALSE]
LitI(str) == [t |-> "lit", str |-> str, ci |-> TRUE]
Cat(l) == [t |-> "cat", l |-> l]
Alt(l) == [t |-> "alt", l |-> l]
Rep(r, lo, hi) == [t |-> "rep", r |-> r, lo |-> lo, hi |-> hi]
Star(r) == Rep(r, 0, -1)
Plus(r) == Rep(r, 1, -1)
AtLeast(r, n) == Rep(r, n, -1)
Exactly(r, n) == Rep(r, n, n)
Opt(r) == Rep(r, 0, 1)
Cap(r) == [t |-> "cap", r |-> r]
WordB == [t |-> "wb"]

\* an assertion on the position reached (no part of the regex syntax: the
\* matcher's check that an iteration consumed something, and the properties'
\* way of asking where a match ends)
At(positions) == [t |-> "at", ok |-> positions]
CapEnd(from) == [t |-> "capend", from |-> from]

NoCap == <<>>
Fail == [ok |-> FALSE]

IsWordAt(s, i) == i >= 1 /\ i <= Len(s) /\ CharAt(s, i) \in WordChar

\* the end of the run of characters of set that starts at p, at most most long
RECURSIVE RunEnd(_, _, _, _)
RunEnd(s, p, set, most) ==
    IF most # 0 /\ p <= Len(s) /\ CharAt(s, p) \in set
    THEN RunEnd(s, p + 1, set, most - 1)
    ELSE p

(***************************************************************************)
(* Run(todo, s, i, c): the backtracking matcher.  todo is the list of      *)
(* nodes still to match, in sequence, from position i of s; c is the span  *)
(* of capture group 1 so far.  The result is the first success in the      *)
(* matcher's priority order (greedy quantifiers give back one repetition   *)
(* at a time, alternatives are tried left to right), or Fail.              *)
(***************************************************************************)
RECURSIVE Run(_, _, _, _)
RECURSIVE RunAlt(_, _, _, _, _, _)
RECURSIVE RunRepChr(_, _, _, _, _, _)

Run(todo, s, i, c) ==
    IF Len(todo) = 0 THEN [ok |-> TRUE, e |-> i, c |-> c]
    ELSE
    LET n == Head(todo)
        rest == Tail(todo)
    IN CASE n.t = "chr" ->
            IF i <= Len(s) /\ CharAt(s, i) \in n.set
            THEN Run(rest, s, i + 1, c) ELSE Fail
      [] n.t = "lit" ->
            LET j == i + Len(n.str) - 1
                sub == IF j <= Len(s) THEN SubSeq(s, i, j) ELSE ""
            IN IF j <= Len(s) /\ (IF n.ci THEN ToLower(sub) ELSE sub) = n.str
               THEN Run(rest, s, j + 1, c) ELSE Fail
      [] n.t = "wb" ->
            IF IsWordAt(s, i - 1) # IsWordAt(s, i) THEN Run(rest, s, i, c) ELSE Fail
      [] n.t = "at" ->
            IF i \in n.ok THEN Run(rest, s, i, c) ELSE Fail
      [] n.t = "cat" -> Run(n.l \o rest, s, i, c)
      [] n.t = "alt" -> RunAlt(n.l, 1, rest, s, i, c)
      [] n.t = "cap" -> Run(<<n.r, CapEnd(i)>> \o rest, s, i, c)
      [] n.t = "capend" -> Run(rest, s, i, <<n.from, i>>)
      [] n.t = "rep" ->
            IF n.r.t = "chr"
            THEN \* a quantified character class: the longest run first
                 LET longest == RunEnd(s, i, n.r.set, n.hi) - i
                 IN RunRepChr(rest, s, i, c, n.lo, longest)
            ELSE \* one more iteration (it must consume something), else stop
                 LET again == <<n.r, At((i + 1)..(Len(s) + 1)),
                                Rep(n.r, IF n.lo > 0 THEN n.lo - 1 ELSE 0,
                                         IF n.hi > 0 THEN n.hi - 1 ELSE n.hi)>>
                     more == IF n.hi = 0 THEN Fail ELSE Run(again \o rest, s, i, c)
                 IN IF more.ok THEN more
                    ELSE IF n.lo <= 0 THEN Run(rest, s, i, c) ELSE Fail

\* the alternatives l[k..], left to right
RunAlt(l, k, rest, s, i, c) ==
    IF k > Len(l) THEN Fail
    ELSE LET r == Run(<<l[k]>> \o rest, s, i, c)
         IN IF r.ok THEN r ELSE RunAlt(l, k + 1, rest, s, i, c)

\* hi repetitions, then hi - 1, ... down to lo (the range is split in
\* halves, upper half first, so that the recursion stays shallow)
RunRepChr(rest, s, i, c, lo, hi) ==
    IF lo > hi THEN Fail
    ELSE IF lo = hi THEN Run(rest, s, i + lo, c)
    ELSE LET mid == (lo + hi + 1) \div 2
             upper == RunRepChr(rest, s, i, c, mid, hi)
         IN IF upper.ok THEN upper ELSE RunRepChr(rest, s, i, c, lo, mid - 1)

(***************************************************************************)
(* text.match(re) without the g flag: the first match, or null.            *)
(***************************************************************************)
NoMatch == [found |-> FALSE]

MatchAt(re, s, i) ==
    LET r == Run(<<re>>, s, i, NoCap)
    IN IF ~r.ok THEN NoMatch
       ELSE [found |-> TRUE, index |-> i, end |-> r.e,
             m0 |-> SubSeq(s, i, r.e - 1),
             has1 |-> r.c # NoCap,
             m1 |-> IF r.c # NoCap THEN SubSeq(s, r.c[1], r.c[2] - 1) ELSE ""]

\* the leftmost start in lo..hi at which re matches (the scan is split in
\* halves, left half first, so that its depth stays logarithmic)
RECURSIVE ExecIn(_, _, _, _)
ExecIn(re, s, lo, hi) ==
    IF lo > hi THEN NoMatch
    ELSE IF lo = hi THEN MatchAt(re, s, lo)
    ELSE LET mid == (lo + hi) \div 2
             left == ExecIn(re, s, lo, mid)
         IN IF left.found THEN left ELSE ExecIn(re, s, mid + 1, hi)

ExecFrom(re, s, i) == ExecIn(re, s, i, Len(s) + 1)

Match(s, re) == ExecFrom(re, s, 1)

(***************************************************************************)
(* text.match(re) with the g flag: every match[0], left to right, each     *)
(* search resuming where the last match ended; <<>> stands for null.       *)
(***************************************************************************)
RECURSIVE MatchAllFrom(_, _, _)
MatchAllFrom(re, s, i) ==
    LET m == ExecFrom(re, s, i)
    IN IF ~m.found THEN <<>>
       ELSE <<m.m0>> \o MatchAllFrom(re, s, IF m.end > m.index THEN m.end ELSE m.index + 1)

MatchAll(s, re) == MatchAllFrom(re, s, 1)

\* match[1] || match[0]
Group1OrWhole(m) == IF m.has1 /\ m.m1 # "" THEN m.m1 ELSE m.m0

(***************************************************************************)
(* String helpers of the guards.                                           *)
(***************************************************************************)
\* text.trim()
Trim(s) ==
    LET kept == {i \in 1..Len(s) : CharAt(s, i) \notin WhiteSpace}
    IN IF kept = {} THEN ""
       ELSE SubSeq(s, CHOOSE i \in kept : \A j \in kept : i <= j,
                      CHOOSE i \in kept : \A j \in kept : i >= j)

\* !text || text.trim() === ""
IsBlank(s) == s = "" \/ Trim(s) = ""

(***************************************************************************)
(* The basic extractor, fieldExtractor.ts.                                 *)
(***************************************************************************)
\* /[\w.-]+@[\w.-]+/
BasicEmailPattern ==
    Cat(<<Plus(Chr(WordChar \cup {".", "-"})), Lit("@"),
          Plus(Chr(WordChar \cup {".", "-"}))>>)

\* extractEmail without its guard and with the empty string, not "NA", for no match
BasicExtractEmailOrEmpty(s) ==
    LET m == Match(s, BasicEmailPattern)
    IN IF m.found THEN m.m0 ELSE ""

BasicExtractEmail(s) ==
    IF IsBlank(s) THEN NA
    ELSE LET m == Match(s, BasicEmailPattern)
         IN IF m.found THEN m.m0 ELSE NA

\* /\(\d{3}\)\s*\d{3}-\d{4}/
BracketPhonePattern ==
    Cat(<<Lit("("), Exactly(Chr(Digit), 3), Lit(")"), Star(Chr(WhiteSpace)),
          Exactly(Chr(Digit), 3), Lit("-"), Exactly(Chr(Digit), 4)>>)

BasicExtractPhone(s) ==
    IF IsBlank(s) THEN NA
    ELSE LET m == Match(s, BracketPhonePattern)
         IN IF m.found THEN m.m0 ELSE NA

\* /\b\d{5}\b/
BasicZipPattern == Cat(<<WordB, Exactly(Chr(Digit), 5), WordB>>)

BasicExtractZipCode(s) ==
    IF IsBlank(s) THEN NA
    ELSE LET m == Match(s, BasicZipPattern)
         IN IF m.found THEN m.m0 ELSE NA

OrderSep == Chr(WhiteSpace \cup {":", "#"})
IdToken == Cap(Plus(Chr(AlphaNum)))

BasicOrderPatterns == <<
    \* /order[:\s#]*([A-Za-z0-9]+)/i
    Cat(<<LitI("order"), Star(OrderSep), IdToken>>),
    \* /order\s+(?:id|number)[:\s#]*([A-Za-z0-9]+)/i
    Cat(<<LitI("order"), Plus(Chr(WhiteSpace)), Alt(<<LitI("id"), LitI("number")>>),
          Star(OrderSep), IdToken>>),
    \* /#([A-Za-z0-9]+)/
    Cat(<<Lit("#"), IdToken>>),
    \* /\b([A-Z]{2}\d{6,}|\d{8,}|[A-Z]\d{7,})\b/
    Cat(<<WordB,
          Cap(Alt(<<Cat(<<Exactly(Chr(Upper), 2), AtLeast(Chr(Digit), 6)>>),
                    AtLeast(Chr(Digit), 8),
                    Cat(<<Chr(Upper), AtLeast(Chr(Digit), 7)>>)>>)),
          WordB>>)
>>

RECURSIVE BasicOrderLoop(_, _)
BasicOrderLoop(s, k) ==
    IF k > Len(BasicOrderPatterns) THEN NA
    ELSE LET m == Match(s, BasicOrderPatterns[k])
         IN IF m.found THEN Group1OrWhole(m) ELSE BasicOrderLoop(s, k + 1)

BasicExtractOrderId(s) ==
    IF IsBlank(s) THEN NA ELSE BasicOrderLoop(s, 1)

BasicExtractAllFields(s) ==
    [called |-> TRUE,
     email |-> BasicExtractEmail(s),
     phone |-> BasicExtractPhone(s),
     zipCode |-> BasicExtractZipCode(s),
     orderId |-> BasicExtractOrderId(s)]

(***************************************************************************)
(* The enhanced extractor, enhancedFieldExtractor.ts (src/unnamed/part_002)*)
(***************************************************************************)
\* s.includes(sub)
Includes(s, sub) ==
    \E i \in 1..(Len(s) - Len(sub) + 1) : SubSeq(s, i, i + Len(sub) - 1) = sub

\* s.split(sep).length, for a one-character separator
SplitLength(s, sep) == Cardinality({i \in 1..Len(s) : CharAt(s, i) = sep}) + 1

\* s.replace(/\D/g, '')
RECURSIVE DigitsOf(_)
DigitsOf(s) ==
    IF Len(s) = 0 THEN ""
    ELSE IF Len(s) = 1 THEN (IF s \in Digit THEN s ELSE "")
    ELSE LET mid == Len(s) \div 2
         IN DigitsOf(SubSeq(s, 1, mid)) \o DigitsOf(SubSeq(s, mid + 1, Len(s)))

DigitValue(c) == (CHOOSE i \in 1..10 : CharAt("0123456789", i) = c) - 1

\* parseInt of a string of decimal digits
RECURSIVE ParseInt(_)
ParseInt(s) ==
    IF s = "" THEN 0
    ELSE 10 * ParseInt(SubSeq(s, 1, Len(s) - 1)) + DigitValue(CharAt(s, Len(s)))

\* Array.prototype.filter is SelectSeq of the Sequences module

\* /[A-Za-z0-9._%+-]+@[A-Za-z0-9.-]+\.[A-Za-z]{2,}/g
EnhancedEmailPattern ==
    Cat(<<Plus(Chr(AlphaNum \cup {".", "_", "%", "+", "-"})), Lit("@"),
          Plus(Chr(AlphaNum \cup {".", "-"})), Lit("."), AtLeast(Chr(Alpha), 2)>>)

ValidEmail(email) ==
    /\ Includes(email, ".")
    /\ Len(email) > 5
    /\ ~Includes(email, "..")
    /\ SplitLength(email, "@") = 2

EnhancedExtractEmail(s) ==
    IF IsBlank(s) THEN NA
    ELSE LET matches == MatchAll(s, EnhancedEmailPattern)
         IN IF Len(matches) > 0
            THEN LET validEmails == SelectSeq(matches, ValidEmail)
                 IN IF Len(validEmails) > 0 THEN validEmails[1] ELSE NA
            ELSE NA

EnhancedPhonePatterns == <<
    \* /\(\d{3}\)\s*\d{3}-\d{4}/
    BracketPhonePattern,
    \* /\b\d{3}-\d{3}-\d{4}\b/
    Cat(<<WordB, Exactly(Chr(Digit), 3), Lit("-"), Exactly(Chr(Digit), 3), Lit("-"),
          Exactly(Chr(Digit), 4), WordB>>),
    \* /\b\d{3}\.\d{3}\.\d{4}\b/
    Cat(<<WordB, Exactly(Chr(Digit), 3), Lit("."), Exactly(Chr(Digit), 3), Lit("."),
          Exactly(Chr(Digit), 4), WordB>>),
    \* /\+1\s*\d{3}\s*\d{3}\s*\d{4}/
    Cat(<<Lit("+1"), Star(Chr(WhiteSpace)), Exactly(Chr(Digit), 3), Star(Chr(WhiteSpace)),
          Exactly(Chr(Digit), 3), Star(Chr(WhiteSpace)), Exactly(Chr(Digit), 4)>>),
    \* /\+?\d[\d\s-]{8,}\d/
    Cat(<<Opt(Lit("+")), Chr(Digit), AtLeast(Chr(Digit \cup WhiteSpace \cup {"-"}), 8),
          Chr(Digit)>>)
>>

RECURSIVE EnhancedPhoneLoop(_, _)
EnhancedPhoneLoop(s, k) ==
    IF k > Len(EnhancedPhonePatterns) THEN NA
    ELSE LET m == Match(s, EnhancedPhonePatterns[k])
             digits == DigitsOf(m.m0)
         IN IF m.found /\ Len(digits) >= 10 /\ Len(digits) <= 11
            THEN m.m0
            ELSE EnhancedPhoneLoop(s, k + 1)

\* extractPhone returning the digits of the number found, not the text as written
EnhancedExtractPhoneDigits(s) ==
    IF IsBlank(s) THEN NA
    ELSE LET found == EnhancedPhoneLoop(s, 1)
         IN IF found = NA THEN NA ELSE DigitsOf(found)

EnhancedExtractPhone(s) ==
    IF IsBlank(s) THEN NA ELSE EnhancedPhoneLoop(s, 1)

\* /\b\d{5}(?:-\d{4})?\b/g
EnhancedZipPattern ==
    Cat(<<WordB, Exactly(Chr(Digit), 5),
          Opt(Cat(<<Lit("-"), Exactly(Chr(Digit), 4)>>)), WordB>>)

ValidZip(zip) ==
    LET digits == DigitsOf(zip)
        num == ParseInt(SubSeq(digits, 1, 5))
    IN num >= 1 /\ num <= 99999

EnhancedExtractZipCode(s) ==
    IF IsBlank(s) THEN NA
    ELSE LET matches == MatchAll(s, EnhancedZipPattern)
         IN IF Len(matches) > 0
            THEN LET validZips == SelectSeq(matches, ValidZip)
                 IN IF Len(validZips) > 0 THEN validZips[1] ELSE NA
            ELSE NA

EnhancedOrderPatterns == <<
    \* /order[:\s#]*([A-Za-z0-9]+)/i
    Cat(<<LitI("order"), Star(OrderSep), IdToken>>),
    \* /order\s+(?:id|number)[:\s#]*([A-Za-z0-9]+)/i
    Cat(<<LitI("order"), Plus(Chr(WhiteSpace)), Alt(<<LitI("id"), LitI("number")>>),
          Star(OrderSep), IdToken>>),
    \* /#([A-Za-z0-9]+)/
    Cat(<<Lit("#"), IdToken>>),
    \* /\b([A-Z]{2,}\d{4,}|\d{6,}[A-Z]+|[A-Z]\d{5,})\b/
    Cat(<<WordB,
          Cap(Alt(<<Cat(<<AtLeast(Chr(Upper), 2), AtLeast(Chr(Digit), 4)>>),
                    Cat(<<AtLeast(Chr(Digit), 6), Plus(Chr(Upper))>>),
                    Cat(<<Chr(Upper), AtLeast(Chr(Digit), 5)>>)>>)),
          WordB>>),
    \* /\b(?:order|ord|ref)[:\s#-]*([A-Za-z0-9]+)/i
    Cat(<<WordB, Alt(<<LitI("order"), LitI("ord"), LitI("ref")>>),
          Star(Chr(WhiteSpace \cup {":", "#", "-"})), IdToken>>),
    \* /\b(?:inv|txn|ref)[:\s#-]*([A-Za-z0-9]+)/i
    Cat(<<WordB, Alt(<<LitI("inv"), LitI("txn"), LitI("ref")>>),
          Star(Chr(WhiteSpace \cup {":", "#", "-"})), IdToken>>)
>>

\* /^\d{n}$/.test(s)
IsDigits(s, n) == Len(s) = n /\ \A i \in 1..Len(s) : CharAt(s, i) \in Digit

\* the validation without its test for a phone-like number of 10 digits
ValidOrderIdAllowingPhone(orderId) ==
    /\ orderId # "" /\ Len(orderId) >= 3
    /\ ~IsDigits(orderId, 5)

\* the validation of a candidate order id
ValidOrderId(orderId) ==
    /\ orderId # "" /\ Len(orderId) >= 3
    /\ ~IsDigits(orderId, 5) /\ ~IsDigits(orderId, 10)

RECURSIVE EnhancedOrderLoop(_, _)
EnhancedOrderLoop(s, k) ==
    IF k > Len(EnhancedOrderPatterns) THEN NA
    ELSE LET m == Match(s, EnhancedOrderPatterns[k])
         IN IF m.found /\ ValidOrderId(Group1OrWhole(m))
            THEN Group1OrWhole(m)
            ELSE EnhancedOrderLoop(s, k + 1)

EnhancedExtractOrderId(s) ==
    IF IsBlank(s) THEN NA ELSE EnhancedOrderLoop(s, 1)

EnhancedExtractAllFields(s) ==
    [called |-> TRUE,
     email |-> EnhancedExtractEmail(s),
     phone |-> EnhancedExtractPhone(s),
     zipCode |-> EnhancedExtractZipCode(s),
     orderId |-> EnhancedExtractOrderId(s)]

(***************************************************************************)
(* regexExtractFields of the enhanced module: every match of three         *)
(* patterns, duplicates removed.                                           *)
(***************************************************************************)
\* /\+?\d[\d\s-]{8,}\d/g
LegacyPhonePattern ==
    Cat(<<Opt(Lit("+")), Chr(Digit), AtLeast(Chr(Digit \cup WhiteSpace \cup {"-"}), 8),
          Chr(Digit)>>)

\* /order[\s#:]*\d+/gi
LegacyOrderPattern ==
    Cat(<<LitI("order"), Star(Chr(WhiteSpace \cup {"#", ":"})), Plus(Chr(Digit))>>)

\* Array.from(new Set(list)), also [...new Set(list)]: first occurrences, in order
RECURSIVE Unique(_)
Unique(list) ==
    IF list = <<>> THEN <<>>
    ELSE LET rest == Unique(SubSeq(list, 1, Len(list) - 1))
             last == list[Len(list)]
         IN IF \E i \in 1..Len(rest) : rest[i] = last THEN rest ELSE Append(rest, last)

RegexExtractFields(s) ==
    [emails |-> Unique(MatchAll(s, EnhancedEmailPattern)),
     phone_numbers |-> Unique(MatchAll(s, LegacyPhonePattern)),
     order_ids |-> Unique(MatchAll(s, LegacyOrderPattern))]

(***************************************************************************)
(* FastAPIClient and hybridExtraction, fastApiClient.ts                    *)
(* (src/unnamed/part_003).  The backend is the environment: it answers a   *)
(* request with an ok response, a response that is not ok, or not at all   *)
(* (fetch rejects, or the body is no JSON).                                *)
(***************************************************************************)
Undefined == [defined |-> FALSE]

\* a FastAPIExtractionResult; error "" stands for no error property
FastAPIResult(emails, phones, orders, error) ==
    [defined |-> TRUE, emails |-> emails, phone_numbers |-> phones, order_ids |-> orders,
     error |-> error]

\* createFastAPIClient gives a client (TRUE) or null (FALSE)
CreateFastAPIClient(url) == url # ""

\* what a call returned, or that it threw
Returned(value) == [threw |-> FALSE, value |-> value]
Threw == [threw |-> TRUE, value |-> FALSE]

\* healthCheck with a failed request taken for a healthy backend
HealthCheckFailingOpen(answer) == Returned(answer # "notOk")

\* healthCheck: response.ok, and false when the request fails (catch)
HealthCheck(answer) == Returned(answer = "ok")

\* extractFields: the JSON of an ok response, else empty lists and the error message
ExtractFields(answer) ==
    IF answer.outcome = "ok" THEN answer.json
    ELSE FastAPIResult(<<>>, <<>>, <<>>,
                       IF answer.outcome = "notOk" THEN "FastAPI request failed: 500"
                       ELSE "fetch failed")

\* fastApiResult?.emails || [] and its like
OrEmpty(result, field) == IF result.defined THEN result[field] ELSE <<>>

\* list[0] || 'NA'
FirstOrNA(list) == IF Len(list) > 0 /\ list[1] # "" THEN list[1] ELSE NA

\* [...new Set([...regexResult.x, ...(fastApiResult?.x || [])])]
CombinedList(regexList, result, field) == Unique(regexList \o OrEmpty(result, field))

Combined(s, regex, result) ==
    [defined |-> TRUE,
     email |-> FirstOrNA(CombinedList(regex.emails, result, "emails")),
     phone |-> FirstOrNA(CombinedList(regex.phone_numbers, result, "phone_numbers")),
     zipCode |-> EnhancedExtractZipCode(s),
     orderId |-> FirstOrNA(CombinedList(regex.order_ids, result, "order_ids"))]

NoLists == [emails |-> <<>>, phone_numbers |-> <<>>, order_ids |-> <<>>]

\* hybridExtraction has not been called
HybridIdle == [pc |-> "idle", regex |-> NoLists, fastapi |-> Undefined, combined |-> Undefined]

Sent(request) == [request |-> request, answer |-> "pending"]

\* the last request sent has its answer
Answered(calls, answer) == [calls EXCEPT ![Len(calls)].answer = answer]

\* the message of the error that the catch of processBatch receives
BatchErrorMessage(answer) ==
    CASE answer.outcome = "notOk" -> "FastAPI batch request failed: 500"
      [] answer.outcome = "notJson" -> "Unexpected token < in JSON at position 0"
      [] OTHER -> "fetch failed"

\* processBatch answering a failure with one error result, whatever was sent
ProcessBatchOneError(batch, answer) ==
    IF answer.outcome = "ok" THEN Returned(answer.json)
    ELSE Returned(<<FastAPIResult(<<>>, <<>>, <<>>, BatchErrorMessage(answer))>>)

\* processBatch: the JSON of an ok response, else conversations.map to error results
ProcessBatch(batch, answer) ==
    IF answer.outcome = "ok" THEN Returned(answer.json)
    ELSE Returned([i \in 1..Len(batch) |->
                     FastAPIResult(<<>>, <<>>, <<>>, BatchErrorMessage(answer))])

\* no call of the client is under way
ClientIdle == [pc |-> "idle", method |-> "", input |-> "", answer |-> "", result |-> Undefined]

\* a method of the client was called and awaits its fetch
ClientCalled(method, input) ==
    [ClientIdle EXCEPT !.pc = "awaiting", !.method = method, !.input = input]

\* the promise of the call settles with what the method returned or threw
ClientSettled(call, answer, outcome) ==
    [call EXCEPT !.pc = IF outcome.threw THEN "rejected" ELSE "resolved",
                 !.answer = answer.outcome,
                 !.result = IF outcome.threw THEN Undefined ELSE outcome.value]

(***************************************************************************)
(* JSON values of request bodies and the values of database columns: a     *)
(* kind and a text (the characters of a string, the numeral of a number,   *)
(* the JSON text of an object).                                            *)
(***************************************************************************)
J(kind, str) == [j |-> kind, s |-> str]
JUndefined == J("undefined", "")
JNull == J("null", "")
JStr(str) == J("string", str)

\* !!v
Truthy(v) ==
    CASE v.j = "string" -> v.s # ""
      [] v.j = "number" -> v.s # "0"
      [] v.j = "boolean" -> v.s = "true"
      [] v.j \in {"array", "object"} -> TRUE
      [] OTHER -> FALSE

\* v || 'NA'
OrNA(v) == IF Truthy(v) THEN v ELSE JStr(NA)

\* JSON.stringify(v || {})
StringifyOrEmpty(v) ==
    IF ~Truthy(v) THEN "{}"
    ELSE IF v.j = "string" THEN "\"" \o v.s \o "\"" ELSE v.s

\* JSON.parse of a text that JSON.stringify wrote
JsonParse(str) ==
    IF Head(str) = "\"" THEN JStr(SubSeq(str, 2, Len(str) - 1))
    ELSE IF Head(str) = "{" THEN J("object", str)
    ELSE IF Head(str) = "[" THEN J("array", str)
    ELSE IF str \in {"true", "false"} THEN J("boolean", str)
    ELSE J("number", str)

\* s.substring(0, 100) + '...'
Preview(str) == SubSeq(str, 1, IF Len(str) < 100 THEN Len(str) ELSE 100) \o "..."

(***************************************************************************)
(* dbOps, database.ts (src/unnamed/part_001), over better-sqlite3.  A      *)
(* statement throws when a parameter cannot be bound, when a constraint    *)
(* fails, or when the database itself fails (fault).                       *)
(***************************************************************************)
\* better-sqlite3 binds numbers, strings and null (undefined as null)
Bindable(v) == v.j \in {"string", "number", "null", "undefined"}

\* the value a TEXT column keeps
AsText(v) ==
    IF v.j = "number" THEN JStr(v.s) ELSE IF v.j = "undefined" THEN JNull ELSE v

HasConversation(convs, id) == \E i \in 1..Len(convs) : convs[i].id = id

\* createConversation as INSERT OR REPLACE: a row with the id is replaced, not refused
DbCreateOrReplaceConversation(convs, row, fault) ==
    IF fault \/ ~Bindable(row.title) \/ ~Bindable(row.content) \/ ~Bindable(row.fileName)
    THEN Threw
    ELSE Returned(Append(SelectSeq(convs, LAMBDA c : c.id # row.id),
                         [id |-> row.id, title |-> AsText(row.title),
                          content |-> AsText(row.content),
                          fileName |-> AsText(row.fileName), createdAt |-> row.createdAt]))

\* createConversation; id is the primary key, createdAt is CURRENT_TIMESTAMP
DbCreateConversation(convs, row, fault) ==
    IF \/ fault
       \/ HasConversation(convs, row.id)
       \/ ~Bindable(row.title) \/ ~Bindable(row.content) \/ ~Bindable(row.fileName)
    THEN Threw
    ELSE Returned(Append(convs, [id |-> row.id, title |-> AsText(row.title),
                                 content |-> AsText(row.content),
                                 fileName |-> AsText(row.fileName),
                                 createdAt |-> row.createdAt]))

\* createExtractedFields
DbCreateExtractedFields(fields, row, fault) ==
    IF \/ fault
       \/ ~Bindable(row.email) \/ ~Bindable(row.phone)
       \/ ~Bindable(row.zipCode) \/ ~Bindable(row.orderId)
    THEN Threw
    ELSE Returned(Append(fields, [conversationId |-> row.conversationId,
                                  email |-> AsText(row.email), phone |-> AsText(row.phone),
                                  zipCode |-> AsText(row.zipCode),
                                  orderId |-> AsText(row.orderId),
                                  metadata |-> JStr(row.metadata)]))

\* deleteConversation without its first statement: the conversation's row only
DbDeleteConversationRowOnly(convs, fields, id) ==
    [conversations |-> SelectSeq(convs, LAMBDA c : c.id # id), extracted_fields |-> fields]

\* the transaction of deleteConversation
DbDeleteConversation(convs, fields, id) ==
    [conversations |-> SelectSeq(convs, LAMBDA c : c.id # id),
     extracted_fields |-> SelectSeq(fields, LAMBDA f : f.conversationId # id)]

NoFieldsRow ==
    [email |-> JNull, phone |-> JNull, zipCode |-> JNull, orderId |-> JNull,
     metadata |-> JNull]

\* conversations c LEFT JOIN extracted_fields ef ON c.id = ef.conversationId, for one c
JoinedWith(conv, fields) ==
    LET matching == SelectSeq(fields, LAMBDA f : f.conversationId = conv.id)
        Row(f) == [id |-> conv.id, title |-> conv.title, content |-> conv.content,
                   fileName |-> conv.fileName, createdAt |-> conv.createdAt,
                   email |-> f.email, phone |-> f.phone, zipCode |-> f.zipCode,
                   orderId |-> f.orderId, metadata |-> f.metadata]
    IN IF matching = <<>> THEN <<Row(NoFieldsRow)>>
       ELSE [i \in 1..Len(matching) |-> Row(matching[i])]

RECURSIVE Joined(_, _)
Joined(convs, fields) ==
    IF convs = <<>> THEN <<>>
    ELSE JoinedWith(Head(convs), fields) \o Joined(Tail(convs), fields)

\* getConversations: the joined rows ORDER BY createdAt DESC, in each order
\* SQLite may give to rows of one timestamp
DbGetConversations(convs, fields) ==
    LET rows == Joined(convs, fields)
        n == Len(rows)
        Orders == {p \in [1..n -> 1..n] :
                     /\ \A i, k \in 1..n : i # k => p[i] # p[k]
                     /\ \A i \in 1..(n - 1) : rows[p[i]].createdAt >= rows[p[i + 1]].createdAt}
    IN {[i \in 1..n |-> rows[p[i]]] : p \in Orders}

\* getConversationById: the first joined row of the id, or undefined
DbGetConversationById(convs, fields, id) ==
    LET rows == SelectSeq(Joined(convs, fields), LAMBDA r : r.id = id)
    IN IF rows = <<>> THEN Undefined ELSE [defined |-> TRUE, row |-> rows[1]]

(***************************************************************************)
(* The routes.  A handler is an operator from the stored rows and the      *)
(* request to the rows it leaves and the response it sends.                *)
(***************************************************************************)
Respond(route, request, status, body) ==
    [route |-> route, request |-> request, status |-> status, body |-> body]

ErrorBody(message) == [error |-> message]

Outcome(convs, fields, resp) ==
    [conversations |-> convs, extracted_fields |-> fields, response |-> resp]

\* extractAllFieldsWithMetadata(text, fileName)
ExtractAllFieldsWithMetadata(s, fileName, clock) ==
    LET fields == EnhancedExtractAllFields(s)
    IN [email |-> fields.email, phone |-> fields.phone, zipCode |-> fields.zipCode,
        orderId |-> fields.orderId,
        metadata |-> [fileName |-> fileName, processedAt |-> clock,
                      textLength |-> Len(s), extractionMethod |-> "regex"]]

\* POST /api/extract; a body is no JSON ("invalid"), the JSON null, or an object
ExtractPOST(body, clock) ==
    LET Answer(status, content) == Respond("POST /api/extract", body, status, content)
    IN IF body.kind # "object" THEN Answer(500, ErrorBody("Internal server error"))
       ELSE IF ~Truthy(body.text) \/ body.text.j # "string"
       THEN Answer(400, ErrorBody("Text content is required"))
       ELSE Answer(200, ExtractAllFieldsWithMetadata(body.text.s, body.fileName, clock))

\* the { id, title, ..., extractedFields } of a joined row
Formatted(row) ==
    [id |-> row.id, title |-> row.title, content |-> row.content,
     extractedFields |-> [email |-> OrNA(row.email), phone |-> OrNA(row.phone),
                          zipCode |-> OrNA(row.zipCode), orderId |-> OrNA(row.orderId)],
     fileName |-> row.fileName, createdAt |-> row.createdAt]

\* GET /api/conversations, for one order of the rows (date, a rendering of
\* createdAt, is left out)
ConversationsGET(rows) ==
    Respond("GET /api/conversations", JNull, 200,
            [list |-> [i \in 1..Len(rows) |->
                         [item |-> Formatted(rows[i]),
                          preview |-> Preview(rows[i].content.s)]]])

\* GET /api/conversations/[id]
ConversationGET(convs, fields, id) ==
    LET found == DbGetConversationById(convs, fields, id)
    IN IF ~found.defined
       THEN Respond("GET /api/conversations/[id]", id, 404,
                    ErrorBody("Conversation not found"))
       ELSE Respond("GET /api/conversations/[id]", id, 200,
                    [item |-> Formatted(found.row),
                     metadata |-> IF Truthy(found.row.metadata)
                                  THEN JsonParse(found.row.metadata.s) ELSE JNull])

\* POST /api/conversations; id is the conv_<Date.now()>_<random> generated, fault
\* names the statement the database fails, if any
ConversationsPOST(convs, fields, body, id, fault, clock) ==
    LET Answer(status, content) == Respond("POST /api/conversations", body, status, content)
        Failed == Answer(500, ErrorBody("Failed to create conversation"))
    IN IF body.kind # "object" THEN Outcome(convs, fields, Failed)
       ELSE IF ~Truthy(body.title) \/ ~Truthy(body.content)
               \/ ~Truthy(body.extractedFields)
       THEN Outcome(convs, fields, Answer(400, ErrorBody("Missing required fields")))
       ELSE
       LET ef == body.extractedFields
           created ==
               DbCreateConversation(convs,
                   [id |-> id, title |-> body.title, content |-> body.content,
                    fileName |-> body.fileName, createdAt |-> clock],
                   fault = "createConversation")
       IN IF created.threw THEN Outcome(convs, fields, Failed)
          ELSE
          LET saved ==
                  DbCreateExtractedFields(fields,
                      [conversationId |-> id, email |-> OrNA(ef.email),
                       phone |-> OrNA(ef.phone), zipCode |-> OrNA(ef.zipCode),
                       orderId |-> OrNA(ef.orderId),
                       metadata |-> StringifyOrEmpty(ef.metadata)],
                      fault = "createExtractedFields")
          IN IF saved.threw THEN Outcome(created.value, fields, Failed)
             \* content.substring is no function
             ELSE IF body.content.j # "string"
             THEN Outcome(created.value, saved.value, Failed)
             ELSE Outcome(created.value, saved.value,
                          Answer(200, [id |-> id, title |-> body.title,
                                       preview |-> Preview(body.content.s),
                                       content |-> body.content, extractedFields |-> ef,
                                       fileName |-> body.fileName, createdAt |-> clock]))

\* DELETE /api/conversations?id=...; id is searchParams.get('id'), null when absent
ConversationsDELETE(convs, fields, id, fault) ==
    LET Answer(status, content) == Respond("DELETE /api/conversations", id, status, content)
    IN IF ~Truthy(id)
       THEN Outcome(convs, fields, Answer(400, ErrorBody("Conversation ID is required")))
       ELSE IF fault
       THEN Outcome(convs, fields, Answer(500, ErrorBody("Failed to delete conversation")))
       ELSE LET left == DbDeleteConversation(convs, fields, id.s)
            IN Outcome(left.conversations, left.extracted_fields,
                       Answer(200, [success |-> TRUE]))

NoResponse == Respond("", JNull, 0, ErrorBody(""))

(***************************************************************************)
(* The page (Home of page.tsx, as EXTRACTION_BEFORE_AFTER.md gives it, in  *)
(* its first version and in its final one), with ConversationInput and     *)
(* FileUpload.  A handler runs to its next await in one step; a step that  *)
(* follows an await takes the answer of the fetch awaited.  The backend of *)
(* the page is the FastAPI server at FASTAPI_URL, whose answers are the    *)
(* environment's.                                                          *)
(***************************************************************************)
\* the useState values of a page just mounted, fetchConversations under way
Mounted(version) ==
    [version |-> version, conversations |-> <<>>, selectedConversationId |-> "",
     extractedFields |-> JNull, isProcessing |-> FALSE, isLoading |-> FALSE,
     bulkResults |-> <<>>, fetchConversations |-> "pending"]

\* setIsProcessing(true); setIsLoading(true)
Processing(p) == [p EXCEPT !.isProcessing = TRUE, !.isLoading = TRUE]

\* a finally block that resets isProcessing only
FinallyKeepsLoading(p) == [p EXCEPT !.isProcessing = FALSE]

\* the finally block of processConversation
Finally(p) == [p EXCEPT !.isProcessing = FALSE, !.isLoading = FALSE]

\* a call of processConversation(text, fileName) at its first await; length is the
\* conversations.length of the render whose closure runs
Started(content, fileName, length) ==
    [pc |-> "bulk", text |-> content, fileName |-> fileName, length |-> length,
     results |-> <<>>, saveBody |-> Undefined, ended |-> "", saved |-> "",
     alerted |-> FALSE]

\* the call has returned: its arguments and locals are gone; how it ended, the id its
\* conversation was given and whether it alerted are kept
Ended(run, how, id, alerted) ==
    [pc |-> "done", text |-> "", fileName |-> "", length |-> 0, results |-> <<>>,
     saveBody |-> Undefined, ended |-> how, saved |-> id, alerted |-> alerted]

\* c.toUpperCase()
ToUpperChar(c) ==
    IF c \in Lower
    THEN CharAt(UpperLetters, CHOOSE i \in 1..Len(LowerLetters) : CharAt(LowerLetters, i) = c)
    ELSE c

\* s.replace(/_/g, ' ').replace(/\b\w/g, c => c.toUpperCase()), from position i on
RECURSIVE TitleCaseFrom(_, _)
TitleCaseFrom(s, i) ==
    IF i > Len(s) THEN ""
    ELSE LET c == CharAt(s, i)
             first == i = 1 \/ CharAt(s, i - 1) \notin AlphaNum
         IN (IF c = "_" THEN " " ELSE IF c \in AlphaNum /\ first THEN ToUpperChar(c) ELSE c)
            \o TitleCaseFrom(s, i + 1)

TitleCase(s) == TitleCaseFrom(s, 1)

\* fileName ? fileName.replace(/\.[^/.]+$/, '') : ''
BaseName(fileName) ==
    LET m == Match(fileName,
                   Cat(<<Lit("."), Plus(Chr(CharsOf(fileName) \ {"/", "."})),
                         At({Len(fileName) + 1})>>))
    IN IF fileName # "" /\ m.found THEN SubSeq(fileName, 1, m.index - 1) ELSE fileName

\* Object.entries(categories).sort((a, b) => b[1] - a[1])[0], its name in title case
TopCategoryName(categories) ==
    IF categories = <<>> THEN ""
    ELSE LET top == CHOOSE i \in 1..Len(categories) :
                       /\ \A k \in 1..Len(categories) :
                             categories[k].count <= categories[i].count
                       /\ \A k \in 1..(i - 1) : categories[k].count < categories[i].count
         IN TitleCase(categories[top].name)

\* the character U+2022 of the titles
Bullet == "*"

\* new Date().toLocaleTimeString([], {hour: '2-digit', minute: '2-digit'})
TimeOfDay == "09:05"

\* convTitle
ConvTitle(fileName, bulkData, results) ==
    LET baseName == BaseName(fileName)
        format == IF bulkData.format = "" THEN "text" ELSE bulkData.format
        total == ToString(Len(results))
        topCategoryName == TopCategoryName(bulkData.categories)
        mainCategory == TitleCase(results[1].metadata.flow)
    IN IF Len(results) = 1
       THEN IF mainCategory # "" THEN mainCategory
            ELSE IF baseName # "" THEN baseName
            ELSE "Chat " \o TimeOfDay
       ELSE IF format = "abcd"
       THEN IF topCategoryName # ""
            THEN (IF baseName # "" THEN baseName ELSE "ABCD")
                 \o " (" \o total \o ") " \o Bullet \o " " \o topCategoryName
            ELSE (IF baseName # "" THEN baseName ELSE "ABCD Dataset")
                 \o " (" \o total \o " convos)"
       ELSE IF baseName # "" THEN baseName \o " (" \o total \o " convos)"
       ELSE total \o " Conversations"

\* the four fields of a result, each || 'NA'
FieldsOrNA(result) ==
    [email |-> OrNA(result.email), phone |-> OrNA(result.phone),
     zipCode |-> OrNA(result.zipCode), orderId |-> OrNA(result.orderId)]

\* a summary taken from the last result of the upload
SummaryOfLast(results) == FieldsOrNA(results[Len(results)])

\* the extractedFields of the save request: the first result's
Summary(results) == FieldsOrNA(results[1])

\* a content that is the JSON text of a value, and one that is free text
JsonContent(value) == [kind |-> "json", value |-> value]
TextContent(str) == [kind |-> "text", s |-> str]

\* the body of the save request of the final version
SaveBody(fileName, bulkData, results) ==
    [title |-> ConvTitle(fileName, bulkData, results),
     content |-> JsonContent([totalConversations |-> Len(results), results |-> results]),
     fileName |-> fileName,
     extractedFields |-> Summary(results)]

\* the body of the save request of the first version
FirstSaveBody(run) ==
    [title |-> IF run.fileName # "" THEN run.fileName
               ELSE "Conversation " \o ToString(run.length + 1),
     content |-> TextContent(run.text),
     fileName |-> run.fileName]

\* processConversation of the final version from the answer of POST /extract-bulk to
\* its next await or its end
AfterBulkResponse(p, run, answer) ==
    IF answer.outcome # "ok"
    THEN [page |-> Finally(p), run |-> Ended(run, "extraction failed", "", TRUE)]
    ELSE LET results == answer.data.conversations
             shown == [p EXCEPT !.bulkResults = results,
                                !.extractedFields =
                                    IF Len(results) > 0 THEN results[1] ELSE @]
         IN IF Len(results) > 0
            THEN [page |-> shown,
                  run |-> [run EXCEPT !.pc = "save", !.results = results,
                                      !.saveBody = SaveBody(run.fileName, answer.data,
                                                            results)]]
            ELSE [page |-> Finally(shown), run |-> Ended(run, "no results", "", FALSE)]

\* processConversation of the first version from the answer of POST /extract
AfterExtractResponse(p, run, answer) ==
    IF answer.outcome # "ok"
    THEN [page |-> Finally(p), run |-> Ended(run, "extraction failed", "", TRUE)]
    ELSE [page |-> [p EXCEPT !.extractedFields = answer.data],
          run |-> [run EXCEPT !.pc = "save", !.saveBody = FirstSaveBody(run)]]

\* processConversation from the answer of POST /conversations to its end; a save that
\* fails is logged by the final version and alerted by the first
AfterSaveResponse(p, run, answer) ==
    IF answer.outcome = "ok"
    THEN [page |-> Finally([p EXCEPT !.conversations = <<answer.saved>> \o @,
                                     !.selectedConversationId = answer.saved.id]),
          run |-> Ended(run, "saved", answer.saved.id, FALSE)]
    ELSE [page |-> Finally(p),
          run |-> Ended(run, "save failed", "",
                        p.version = "first" /\ answer.outcome = "failed")]

\* JSON.parse(conversation.content), then content.results if it is an array, else []
StoredResults(content) ==
    IF content.kind = "json" /\ "results" \in DOMAIN content.value
    THEN content.value.results
    ELSE <<>>

\* handleConversationSelect after its await
AfterDetailResponse(p, answer) ==
    IF answer.outcome # "ok" THEN p
    ELSE [p EXCEPT !.extractedFields = answer.conversation.extractedFields,
                   !.bulkResults = IF p.version = "first" THEN @
                                   ELSE StoredResults(answer.conversation.content)]

(***************************************************************************)
(* Inputs.                                                                 *)
(***************************************************************************)
\* the number of vocabulary tokens an input text is made of, at most
MaxTokens == 3

\* the text of "How to Verify the Extraction Fix (Quick Test)"
QuickTestText ==
    "Customer called about order 1012809669. Email is john@example.com. Phone (752) 693-4642. Zip code 78202."

\* the text of "Test Case 2: With Order ID"
TestCase2Text ==
    "Order ID: 2243746561 - please call (503) 941-7614 for status update. Location 78202"

\* a complaint that mentions an order and gives no number (no field to find)
NoNumberText == "my order was late"

ExampleTexts == {QuickTestText, TestCase2Text, NoNumberText}

RECURSIVE Join(_)
Join(toks) == IF toks = <<>> THEN "" ELSE Head(toks) \o Join(Tail(toks))

\* every concatenation of at most MaxTokens tokens of a vocabulary
TextsOver(vocab) ==
    {Join(ts) : ts \in UNION {[1..k -> vocab] : k \in 0..MaxTokens}}

Vocabulary ==
    {"order", " ", "(752) 693-4642", "123456789", "78202", "a@b.co"}

OrderVocabulary ==
    {"order", "order id", " number", " #", ": ", " was", "123456"}

PhoneVocabulary ==
    {"order id", " ", "(752) 693-4642", "752-693-4642", "+1 752 693 4642", "7526934642"}

\* other ways of writing a phone number without parentheses
PhoneExamples == {"752.693.4642", "call 752.693.4642 now", "+17526934642", "752 693 4642"}

ZipVocabulary ==
    {"zip ", "zip code ", "zip: ", "12345 ", "78202", "order # ", "(752) 693-4642"}

\* order ids that the validation refuses (too short, ZIP-like, phone-like) and accepts
OrderIdVocabulary ==
    {"order ", "order id ", "#", "12", "12345", "1012809669", "AB1234"}

\* a digit run too long for a phone number, and phone numbers in the supported formats
LongRunVocabulary ==
    {"123456789012", " ", "call ", "7526934642", "752-693-4642", "(752) 693-4642",
     "+1 752 693 4642"}

\* texts of nothing but white space
BlankTexts == {"", " ", "\t", "\n", "\r\n", " \n\t "}

\* pieces of addresses: a double dot, a second @, a domain with no dot
EmailVocabulary == {"a", ".", "..", "@", "b.co", " ", "a@b.co"}

Inputs == ExampleTexts \cup BlankTexts \cup TextsOver(Vocabulary)

\* the values of FASTAPI_URL: unset (or empty), and set
FastApiUrls == {"", "http://localhost:8000"}

\* the texts handed to hybridExtraction
HybridTexts ==
    ExampleTexts \cup {"", "a@b.co", "order #123456", "call 752-693-4642", "a@b.co order 123456 a@b.co"}

\* the number of values in a list the backend returns, at most
MaxBackendValues == 2

ListsOver(values) == UNION {[1..k -> values] : k \in 0..MaxBackendValues}

\* what the backend (the LLM) may find in the texts
BackendEmails == {"john@example.com"}
BackendPhones == {"(752) 693-4642"}
BackendOrderIds == {"1012809669", "123456"}

\* the JSON bodies of the backend's ok responses to POST /extract
BackendResults ==
    {FastAPIResult(e, p, o, "") :
        e \in ListsOver(BackendEmails), p \in ListsOver(BackendPhones),
        o \in ListsOver(BackendOrderIds)}

HealthAnswers == {"ok", "notOk", "failed"}

\* the two versions of page.tsx
Versions == {"first", "final"}

\* an ExtractedFields of the backend, metadata.flow "" for none
ExtractedFieldsOf(email, phone, zipCode, orderId, flow) ==
    [email |-> email, phone |-> phone, zipCode |-> zipCode, orderId |-> orderId,
     metadata |-> [flow |-> flow]]

\* results of the backend: every field found; fields empty, absent and "NA"
AllFound ==
    ExtractedFieldsOf(JStr("john@example.com"), JStr("(752) 693-4642"), JStr("78202"),
                      JStr("1012809669"), "product_defect")
SomeMissing == ExtractedFieldsOf(JStr(""), JUndefined, JStr("NA"), JStr("123456"), "")

\* the number of conversations the backend finds in one upload, at most
MaxResults == 2

\* lists of results that alternate between the two
ResultLists ==
    {[i \in 1..k |-> IF (i % 2 = 1) = foundFirst THEN AllFound ELSE SomeMissing] :
        k \in 0..MaxResults, foundFirst \in BOOLEAN}

\* the JSON of an ok answer to POST /extract-bulk; a conversations property that is
\* absent counts as the empty list
BulkData(results, format, categories) ==
    [conversations |-> results, format |-> format, categories |-> categories]

BulkAnswers ==
    {[outcome |-> "ok", data |-> BulkData(results, "", <<>>)] : results \in ResultLists}
    \cup {[outcome |-> "ok",
            data |-> BulkData([i \in 1..MaxResults |-> AllFound], "abcd", categories)] :
            categories \in {<<>>, <<[name |-> "billing", count |-> 1],
                                     [name |-> "product_defect", count |-> 1]>>}}
    \cup {[outcome |-> o, data |-> BulkData(<<>>, "", <<>>)] : o \in {"notOk", "failed"}}

\* the answers to POST /extract of the first version
FirstExtractAnswers ==
    {[outcome |-> "ok", data |-> result] : result \in {AllFound, SomeMissing}}
    \cup {[outcome |-> o, data |-> JNull] : o \in {"notOk", "failed"}}

\* the id the backend gives to the conversation it saves, one the history has not
NewId(p) == "s" \o ToString(Len(p.conversations) + 1)

\* the answers to a save request: the conversation saved, a status that is not ok, no
\* answer
SaveAnswers(p, body) ==
    {[outcome |-> "ok", saved |-> [id |-> NewId(p)]]}
    \cup {[outcome |-> o, saved |-> JNull] : o \in {"notOk", "failed"}}

\* the number of processConversation calls of a behaviour, at most
MaxRuns == 2

\* what the user types: a conversation and white space
SubmitTexts == {" my order was late ", "  "}

\* the files the user drops or selects
Files == {[name |-> "chat.txt", content |-> QuickTestText]}

\* the conversations the backend holds when the page mounts: a single conversation
\* and an upload of two
BackendConversations ==
    <<[id |-> "a", title |-> "chat",
       content |-> TextContent(NoNumberText),
       extractedFields |-> FieldsOrNA(SomeMissing)],
      [id |-> "b", title |-> "chat (2 convos)",
       content |-> JsonContent([totalConversations |-> 2,
                                results |-> <<AllFound, SomeMissing>>]),
       extractedFields |-> FieldsOrNA(AllFound)]>>

\* the answer to GET /conversations
HistoryData ==
    [i \in 1..Len(BackendConversations) |-> [id |-> BackendConversations[i].id]]

\* the number of conversations the user selects in a behaviour, at most
MaxSelects == 2

\* the answers to GET /conversations/id
DetailAnswers(id) ==
    {[outcome |-> "ok", conversation |-> BackendConversations[i]] :
        i \in {k \in 1..Len(BackendConversations) : BackendConversations[k].id = id}}
    \cup {[outcome |-> o, conversation |-> JNull] : o \in {"notOk", "failed"}}

\* the texts handed to the client
ClientTexts == {QuickTestText, NoNumberText}

\* the number of conversations of a batch, at most
MaxBatch == 2

\* the batches handed to processBatch
Batches == UNION {[1..k -> ClientTexts] : k \in 0..MaxBatch}

\* what the backend may answer to POST /process_batch: a list of results of any
\* length, a status that is not ok, no answer, or a body that is no JSON
BatchAnswers ==
    {[outcome |-> "ok", json |-> list] :
        list \in UNION {[1..k -> {FastAPIResult(<<>>, <<>>, <<>>, ""),
                                  FastAPIResult(<<"john@example.com">>, <<>>,
                                                <<"1012809669">>, "")}] :
                        k \in 0..MaxBatch}}
    \cup {[outcome |-> o, json |-> <<>>] : o \in {"notOk", "failed", "notJson"}}

ExtractAnswers ==
    {[outcome |-> "ok", json |-> r] : r \in BackendResults}
    \cup {[outcome |-> o, json |-> Undefined] : o \in {"notOk", "failed"}}

\* the last value of the server's clock
MaxClock == 2

\* values of conv_${Date.now()}_${Math.random().toString(36).substr(2, 9)}
GeneratedIds == {"conv_1_a", "conv_2_b"}

\* an id no conversation was given
UnknownId == "conv_0_x"

\* the id parameter of DELETE /api/conversations: absent, empty, or an id
DeleteIds == {JNull, JStr("")} \cup {JStr(id) : id \in GeneratedIds \cup {UnknownId}}

ExtractedFieldsValue(kind, email, phone, zipCode, orderId, metadata) ==
    [j |-> kind, email |-> email, phone |-> phone, zipCode |-> zipCode,
     orderId |-> orderId, metadata |-> metadata]

\* extractedFields with values found, an empty and an absent field
FieldsFound ==
    ExtractedFieldsValue("object", JStr("a@b.co"), JStr(""), JUndefined, JStr("123456"),
                         J("object", "{\"textLength\":17}"))

\* other extractedFields of a request body: absent; the empty object; an object whose
\* email is an array of addresses
OtherFields ==
    {ExtractedFieldsValue("undefined", JUndefined, JUndefined, JUndefined, JUndefined,
                          JUndefined),
     ExtractedFieldsValue("object", JUndefined, JUndefined, JUndefined, JUndefined,
                          JUndefined),
     ExtractedFieldsValue("object", J("array", "[\"a@b.co\"]"), JStr("NA"), JStr("NA"),
                          JStr("NA"), JUndefined)}

ConversationBody(kind, title, content, extractedFields) ==
    [kind |-> kind, title |-> title, content |-> content,
     extractedFields |-> extractedFields, fileName |-> JUndefined]

\* the bodies of POST /api/conversations: no JSON, null, a body the page would send,
\* and that body with another title, content or extractedFields
ConversationBodies ==
    {ConversationBody(kind, JUndefined, JUndefined, FieldsFound) : kind \in {"invalid", "null"}}
    \cup {ConversationBody("object", title, JStr(NoNumberText), FieldsFound) :
            title \in {JStr("Chat"), JUndefined, J("array", "[]")}}
    \cup {ConversationBody("object", JStr("Chat"), content, FieldsFound) :
            content \in {JStr(""), J("number", "5")}}
    \cup {ConversationBody("object", JStr("Chat"), JStr(NoNumberText), ef) :
            ef \in OtherFields}

ExtractBody(kind, content, fileName) == [kind |-> kind, text |-> content, fileName |-> fileName]

\* the bodies of POST /api/extract: no JSON, null, and objects whose text is absent,
\* null, a number, an array, a boolean or a string
ExtractBodies ==
    {ExtractBody(kind, JUndefined, JUndefined) : kind \in {"invalid", "null"}}
    \cup {ExtractBody("object", content, fileName) :
            content \in {JUndefined, JNull, J("number", "5"), J("number", "0"),
                         J("array", "[]"), J("boolean", "true")}
                        \cup {JStr(t) : t \in Inputs},
            fileName \in {JUndefined, JStr("chat.txt")}}

NoHybrid ==
    /\ fastApiUrl = ""
    /\ hybrid = HybridIdle
    /\ backendCalls = <<>>

\* the server has started on an empty database and answered nothing
NoServer ==
    /\ now = 1
    /\ conversations = <<>>
    /\ extracted_fields = <<>>
    /\ response = NoResponse

\* no method of the FastAPIClient has been called
NoClient == client = ClientIdle

\* the page has mounted: the values of its useState calls, nothing in flight
NoPage ==
    /\ page = Mounted("final")
    /\ reads = <<>>
    /\ runs = <<>>
    /\ selects = <<>>

InitWith(texts) ==
    /\ text \in texts
    /\ basic = NoResult
    /\ enhanced = NoResult
    /\ NoHybrid
    /\ NoServer
    /\ NoClient
    /\ NoPage

Init == InitWith(Inputs)
InitOrder == InitWith(ExampleTexts \cup TextsOver(OrderVocabulary))
InitPhone == InitWith(ExampleTexts \cup PhoneExamples \cup TextsOver(PhoneVocabulary))
InitZip == InitWith(ExampleTexts \cup TextsOver(ZipVocabulary))
InitEmail == InitWith({NoNumberText} \cup TextsOver(EmailVocabulary))
InitOrderId == InitWith(ExampleTexts \cup TextsOver(OrderIdVocabulary))
InitLongRun == InitWith(PhoneExamples \cup TextsOver(LongRunVocabulary))

InitHybrid ==
    /\ text \in HybridTexts
    /\ basic = NoResult
    /\ enhanced = NoResult
    /\ fastApiUrl \in FastApiUrls
    /\ hybrid = [HybridIdle EXCEPT !.pc = "start"]
    /\ backendCalls = <<>>
    /\ NoServer
    /\ NoClient
    /\ NoPage

InitServer ==
    /\ text = ""
    /\ basic = NoResult
    /\ enhanced = NoResult
    /\ NoHybrid
    /\ NoServer
    /\ NoClient
    /\ NoPage

CallBasic ==
    /\ ~basic.called
    /\ basic' = BasicExtractAllFields(text)
    /\ UNCHANGED <<text, enhanced>>
    /\ UNCHANGED <<hybridVars, serverVars, clientVars, pageVars>>

CallEnhanced ==
    /\ ~enhanced.called
    /\ enhanced' = EnhancedExtractAllFields(text)
    /\ UNCHANGED <<text, basic>>
    /\ UNCHANGED <<hybridVars, serverVars, clientVars, pageVars>>

\* hybridExtraction up to its first request: the regex lists, the client, GET /
HybridStart ==
    /\ hybrid.pc = "start"
    /\ IF CreateFastAPIClient(fastApiUrl)
       THEN /\ hybrid' = [hybrid EXCEPT !.pc = "health", !.regex = RegexExtractFields(text)]
            /\ backendCalls' = Append(backendCalls, Sent("GET /"))
       ELSE /\ hybrid' = [hybrid EXCEPT !.pc = "combine", !.regex = RegexExtractFields(text)]
            /\ UNCHANGED backendCalls
    /\ UNCHANGED <<fastApiUrl, extractorVars, serverVars, clientVars, pageVars>>

\* healthCheck settles; a healthy backend is sent POST /extract
HybridHealthChecked ==
    /\ hybrid.pc = "health"
    /\ \E answer \in HealthAnswers :
          LET healthy == HealthCheck(answer)
          IN IF healthy.threw
             THEN /\ hybrid' = [hybrid EXCEPT !.pc = "rejected"]
                  /\ backendCalls' = Answered(backendCalls, answer)
             ELSE IF healthy.value
             THEN /\ hybrid' = [hybrid EXCEPT !.pc = "extract"]
                  /\ backendCalls' =
                        Append(Answered(backendCalls, answer), Sent("POST /extract"))
             ELSE /\ hybrid' = [hybrid EXCEPT !.pc = "combine"]
                  /\ backendCalls' = Answered(backendCalls, answer)
    /\ UNCHANGED <<fastApiUrl, extractorVars, serverVars, clientVars, pageVars>>

\* extractFields settles
HybridExtracted ==
    /\ hybrid.pc = "extract"
    /\ \E answer \in ExtractAnswers :
          /\ hybrid' = [hybrid EXCEPT !.pc = "combine", !.fastapi = ExtractFields(answer)]
          /\ backendCalls' = Answered(backendCalls, answer.outcome)
    /\ UNCHANGED <<fastApiUrl, extractorVars, serverVars, clientVars, pageVars>>

\* the results are combined and the promise resolves
HybridCombine ==
    /\ hybrid.pc = "combine"
    /\ hybrid' = [hybrid EXCEPT !.pc = "done",
                                !.combined = Combined(text, hybrid.regex, hybrid.fastapi)]
    /\ UNCHANGED <<fastApiUrl, backendCalls, extractorVars, serverVars, clientVars, pageVars>>

NextHybrid == HybridStart \/ HybridHealthChecked \/ HybridExtracted \/ HybridCombine

InitClient == InitServer

\* the page of either version has mounted
InitPage ==
    /\ text = ""
    /\ basic = NoResult
    /\ enhanced = NoResult
    /\ NoHybrid
    /\ NoServer
    /\ NoClient
    /\ page \in {Mounted(version) : version \in Versions}
    /\ reads = <<>>
    /\ runs = <<>>
    /\ selects = <<>>

\* fetchConversations after its await
FetchConversationsAnswered ==
    /\ page.fetchConversations = "pending"
    /\ \E outcome \in {"ok", "notOk", "failed"} :
          page' = [page EXCEPT !.fetchConversations = "done",
                               !.conversations = IF outcome = "ok" THEN HistoryData ELSE @]
    /\ UNCHANGED <<reads, runs, selects, extractorVars, hybridVars, serverVars, clientVars>>

\* ConversationInput.handleSubmit, handleTextSubmit and processConversation to its
\* first await
TextSubmit ==
    /\ Len(runs) + Len(reads) < MaxRuns
    /\ \E t \in SubmitTexts :
          /\ Trim(t) # "" /\ ~page.isProcessing
          /\ runs' = Append(runs, Started(Trim(t), "", Len(page.conversations)))
    /\ page' = Processing(page)
    /\ UNCHANGED <<reads, selects, extractorVars, hybridVars, serverVars, clientVars>>

\* FileUpload.handleDrop or handleFileSelect, and handleFile: the read starts; the
\* drop zone takes no pointer events and the input is disabled while isProcessing
HandleFile ==
    /\ Len(runs) + Len(reads) < MaxRuns
    /\ ~page.isProcessing
    /\ \E file \in Files :
          reads' = Append(reads, [name |-> file.name, content |-> file.content,
                                  length |-> Len(page.conversations)])
    /\ UNCHANGED <<page, runs, selects, extractorVars, hybridVars, serverVars, clientVars>>

\* reader.onload of the k-th read, handleFileUpload and processConversation to its
\* first await
FileLoaded(k) ==
    /\ k \in 1..Len(reads)
    /\ reads' = SubSeq(reads, 1, k - 1) \o SubSeq(reads, k + 1, Len(reads))
    /\ runs' = Append(runs, Started(reads[k].content, reads[k].name, reads[k].length))
    /\ page' = Processing(page)
    /\ UNCHANGED <<selects, extractorVars, hybridVars, serverVars, clientVars>>

\* the extraction request of run r is answered or fails
BulkAnswered(r) ==
    /\ r \in 1..Len(runs)
    /\ runs[r].pc = "bulk"
    /\ \E answer \in IF page.version = "first" THEN FirstExtractAnswers ELSE BulkAnswers :
          LET out == IF page.version = "first"
                     THEN AfterExtractResponse(page, runs[r], answer)
                     ELSE AfterBulkResponse(page, runs[r], answer)
          IN /\ page' = out.page
             /\ runs' = [runs EXCEPT ![r] = out.run]
    /\ UNCHANGED <<reads, selects, extractorVars, hybridVars, serverVars, clientVars>>

\* the save request of run r is answered or fails
SaveAnswered(r) ==
    /\ r \in 1..Len(runs)
    /\ runs[r].pc = "save"
    /\ \E answer \in SaveAnswers(page, runs[r].saveBody) :
          LET out == AfterSaveResponse(page, runs[r], answer)
          IN /\ page' = out.page
             /\ runs' = [runs EXCEPT ![r] = out.run]
    /\ UNCHANGED <<reads, selects, extractorVars, hybridVars, serverVars, clientVars>>

\* handleConversationSelect to its await
HandleConversationSelect ==
    /\ Len(selects) < MaxSelects
    /\ \E i \in 1..Len(page.conversations) :
          /\ page' = [page EXCEPT !.selectedConversationId = page.conversations[i].id]
          /\ selects' = Append(selects, [id |-> page.conversations[i].id,
                                         outcome |-> "pending"])
    /\ UNCHANGED <<reads, runs, extractorVars, hybridVars, serverVars, clientVars>>

\* the detail request of the k-th selection is answered or fails
DetailAnswered(k) ==
    /\ k \in 1..Len(selects)
    /\ selects[k].outcome = "pending"
    /\ \E answer \in DetailAnswers(selects[k].id) :
          /\ page' = AfterDetailResponse(page, answer)
          /\ selects' = [selects EXCEPT ![k].outcome = answer.outcome]
    /\ UNCHANGED <<reads, runs, extractorVars, hybridVars, serverVars, clientVars>>

NextPage ==
    \/ FetchConversationsAnswered
    \/ TextSubmit
    \/ HandleFile
    \/ \E k \in 1..MaxRuns : FileLoaded(k)
    \/ \E r \in 1..MaxRuns : BulkAnswered(r)
    \/ \E r \in 1..MaxRuns : SaveAnswered(r)

NextSelect ==
    \/ FetchConversationsAnswered
    \/ HandleConversationSelect
    \/ \E k \in 1..MaxSelects : DetailAnswered(k)

\* every fetch of a run is answered or fails in the end
FetchesSettle ==
    \A r \in 1..MaxRuns : WF_vars(BulkAnswered(r)) /\ WF_vars(SaveAnswered(r))

ClientExtractFields ==
    /\ client.pc = "idle"
    /\ \E t \in ClientTexts : client' = ClientCalled("extractFields", t)
    /\ UNCHANGED <<extractorVars, hybridVars, serverVars, pageVars>>

ClientProcessBatch ==
    /\ client.pc = "idle"
    /\ \E batch \in Batches : client' = ClientCalled("processBatch", batch)
    /\ UNCHANGED <<extractorVars, hybridVars, serverVars, pageVars>>

\* the fetch of extractFields is answered or fails
ClientExtractAnswered ==
    /\ client.pc = "awaiting" /\ client.method = "extractFields"
    /\ \E answer \in ExtractAnswers :
          client' = ClientSettled(client, answer, Returned(ExtractFields(answer)))
    /\ UNCHANGED <<extractorVars, hybridVars, serverVars, pageVars>>

\* the fetch of processBatch is answered or fails
ClientBatchAnswered ==
    /\ client.pc = "awaiting" /\ client.method = "processBatch"
    /\ \E answer \in BatchAnswers :
          client' = ClientSettled(client, answer, ProcessBatch(client.input, answer))
    /\ UNCHANGED <<extractorVars, hybridVars, serverVars, pageVars>>

NextClient ==
    ClientExtractFields \/ ClientProcessBatch \/ ClientExtractAnswered \/ ClientBatchAnswered

\* time passes
Tick ==
    /\ now < MaxClock
    /\ now' = now + 1
    /\ UNCHANGED <<conversations, extracted_fields, response, extractorVars, hybridVars,
                 clientVars, pageVars>>

PostExtract ==
    /\ response = NoResponse
    /\ \E body \in ExtractBodies : response' = ExtractPOST(body, now)
    /\ UNCHANGED <<now, conversations, extracted_fields, extractorVars, hybridVars,
                 clientVars, pageVars>>

PostConversations ==
    /\ \E body \in ConversationBodies, id \in GeneratedIds,
          fault \in {"none", "createConversation", "createExtractedFields"} :
          LET out == ConversationsPOST(conversations, extracted_fields, body, id, fault, now)
          IN /\ conversations' = out.conversations
             /\ extracted_fields' = out.extracted_fields
             /\ response' = out.response
    /\ UNCHANGED <<now, extractorVars, hybridVars, clientVars, pageVars>>

DeleteConversations ==
    /\ \E id \in DeleteIds, fault \in BOOLEAN :
          LET out == ConversationsDELETE(conversations, extracted_fields, id, fault)
          IN /\ conversations' = out.conversations
             /\ extracted_fields' = out.extracted_fields
             /\ response' = out.response
    /\ UNCHANGED <<now, extractorVars, hybridVars, clientVars, pageVars>>

GetConversations ==
    /\ \E rows \in DbGetConversations(conversations, extracted_fields) :
          response' = ConversationsGET(rows)
    /\ UNCHANGED <<now, conversations, extracted_fields, extractorVars, hybridVars,
                 clientVars, pageVars>>

GetConversation ==
    /\ \E id \in GeneratedIds \cup {UnknownId} :
          response' = ConversationGET(conversations, extracted_fields, id)
    /\ UNCHANGED <<now, conversations, extracted_fields, extractorVars, hybridVars,
                 clientVars, pageVars>>

NextConversations ==
    Tick \/ PostConversations \/ DeleteConversations \/ GetConversations \/ GetConversation

Next == CallBasic \/ CallEnhanced

Spec == Init /\ [][Next]_vars
SpecOrder == InitOrder /\ [][Next]_vars
SpecPhone == InitPhone /\ [][Next]_vars
SpecZip == InitZip /\ [][Next]_vars
SpecEmail == InitEmail /\ [][Next]_vars
SpecOrderId == InitOrderId /\ [][Next]_vars
SpecLongRun == InitLongRun /\ [][Next]_vars
SpecHybrid == InitHybrid /\ [][NextHybrid]_vars
SpecExtractApi == InitServer /\ [][PostExtract]_vars
SpecConversations == InitServer /\ [][NextConversations]_vars
SpecClient == InitClient /\ [][NextClient]_vars
SpecPage == InitPage /\ [][NextPage]_vars
SpecPageFair == InitPage /\ [][NextPage]_vars /\ FetchesSettle
SpecSelect == InitPage /\ [][NextSelect]_vars

(***************************************************************************)
(* What the properties below read off a text.                              *)
(***************************************************************************)
\* the positions at which re matches
Positions(re, s) == {i \in 1..Len(s) : MatchAt(re, s, i).found}

\* some match of lead ends right before position i
PrecededBy(lead, s, i) ==
    \E j \in 1..(i - 1) : Run(<<lead, At({i})>>, s, j, NoCap).ok

\* position i lies inside the span of some match of re
InsideMatch(re, s, i) ==
    \E j \in 1..i : Run(<<re, At((i + 1)..(Len(s) + 1))>>, s, j, NoCap).ok

IsNumeric(v) == v # "" /\ \A i \in 1..Len(v) : CharAt(v, i) \in Digit

\* "order id", then an optional ':' or whitespace
OrderIdLead == Cat(<<LitI("order id"), Star(Chr(WhiteSpace \cup {":"}))>>)

\* "order id", "order number" or "order #", then an optional ':' or whitespace
OrderContextLead ==
    Cat(<<LitI("order"), Star(Chr(WhiteSpace)),
          Alt(<<LitI("id"), LitI("number"), Lit("#")>>),
          Star(Chr(WhiteSpace \cup {":"}))>>)

\* "zip", "zip code" or "zip:", then whitespace
ZipLead ==
    Cat(<<LitI("zip"), Opt(Cat(<<Star(Chr(WhiteSpace)), LitI("code")>>)),
          Star(Chr(WhiteSpace \cup {":"}))>>)

\* a token of at least n digits
NumericToken(n) == Cat(<<WordB, Cap(AtLeast(Chr(Digit), n)), WordB>>)
FiveDigitToken == Cat(<<WordB, Cap(Exactly(Chr(Digit), 5)), WordB>>)

TokenAt(re, s, i) == MatchAt(re, s, i).m0

(***************************************************************************)
(* C1: for the quick-test text, the enhanced extractAllFields (the one     *)
(* POST /api/extract calls) returns email "john@example.com", phone        *)
(* "752-693-4642" or "(752) 693-4642", zipCode "78202" and orderId         *)
(* "1012809669".                                                           *)
(***************************************************************************)
C1_QuickTestEnhanced ==
    (enhanced.called /\ text = QuickTestText) =>
        /\ enhanced.email = "john@example.com"
        /\ enhanced.phone \in {"752-693-4642", "(752) 693-4642"}
        /\ enhanced.zipCode = "78202"
        /\ enhanced.orderId = "1012809669"

(***************************************************************************)
(* C2: for the quick-test text, the basic extractAllFields returns email   *)
(* exactly "john@example.com" (without the sentence's period), phone       *)
(* "(752) 693-4642" or "752-693-4642", zipCode "78202" and orderId         *)
(* "1012809669".                                                           *)
(***************************************************************************)
C2_QuickTestBasic ==
    (basic.called /\ text = QuickTestText) =>
        /\ basic.email = "john@example.com"
        /\ basic.phone \in {"(752) 693-4642", "752-693-4642"}
        /\ basic.zipCode = "78202"
        /\ basic.orderId = "1012809669"

(***************************************************************************)
(* C3: when the text contains "order id" (any case, optionally followed by *)
(* ':' or whitespace) followed by a numeric token of at least 6 digits,    *)
(* extractOrderId (basic and enhanced) returns that numeric token.         *)
(***************************************************************************)
OrderIdThenNumber(s) ==
    Match(s, Cat(<<OrderIdLead, Cap(AtLeast(Chr(Digit), 6)), WordB>>))

C3_OrderIdPhraseWins ==
    LET m == OrderIdThenNumber(text)
    IN m.found =>
        /\ basic.called => basic.orderId = m.m1
        /\ enhanced.called => enhanced.orderId = m.m1

(***************************************************************************)
(* C4: a bracketed phone-shaped token (ddd) ddd-dddd that is immediately   *)
(* preceded by "order id" is not returned as the phone, by the basic or    *)
(* the enhanced extractPhone (the token counts when each of its            *)
(* occurrences in the text is so preceded).                                *)
(***************************************************************************)
OrderIdPhoneTokens(s) ==
    LET occ == Positions(BracketPhonePattern, s)
        tok(i) == TokenAt(BracketPhonePattern, s, i)
    IN {tok(i) : i \in {i \in occ :
            \A k \in occ : tok(k) = tok(i) => PrecededBy(OrderIdLead, s, k)}}

C4_OrderIdNotPhone ==
    /\ basic.called => basic.phone \notin OrderIdPhoneTokens(text)
    /\ enhanced.called => enhanced.phone \notin OrderIdPhoneTokens(text)

(***************************************************************************)
(* C5: for a text with a bracketed phone number and, separately, a         *)
(* standalone numeric token of 9 or more digits, extractAllFields returns  *)
(* the bracketed number as phone and the 9+ digit token as orderId.        *)
(***************************************************************************)
BracketPhones(s) ==
    {TokenAt(BracketPhonePattern, s, i) : i \in Positions(BracketPhonePattern, s)}

LongNumbers(s) ==
    {MatchAt(NumericToken(9), s, i).m1 :
        i \in {i \in Positions(NumericToken(9), s) :
                 ~InsideMatch(BracketPhonePattern, s, i)}}

C5_PhoneAndOrderDistinct ==
    (BracketPhones(text) # {} /\ LongNumbers(text) # {}) =>
        /\ basic.called =>
              basic.phone \in BracketPhones(text) /\ basic.orderId \in LongNumbers(text)
        /\ enhanced.called =>
              enhanced.phone \in BracketPhones(text) /\ enhanced.orderId \in LongNumbers(text)

(***************************************************************************)
(* C6: what extractOrderId returns is "NA" or a token made only of digits: *)
(* at least 6 when it follows "order id"/"order number"/"order #", at      *)
(* least 9 otherwise; "my order was late" yields "NA".                     *)
(***************************************************************************)
FollowsOrderContext(s, v) ==
    \E i \in 1..Len(s) :
        /\ i + Len(v) - 1 <= Len(s)
        /\ SubSeq(s, i, i + Len(v) - 1) = v
        /\ PrecededBy(OrderContextLead, s, i)

NumericOrderId(s, v) ==
    \/ v = NA
    \/ /\ IsNumeric(v)
       /\ \/ Len(v) >= 9
          \/ Len(v) >= 6 /\ FollowsOrderContext(s, v)

C6_OrderIdNumericOrNA ==
    /\ basic.called => NumericOrderId(text, basic.orderId)
    /\ enhanced.called => NumericOrderId(text, enhanced.orderId)

(***************************************************************************)
(* C7: the enhanced extractPhone (serving POST /api/extract) returns a     *)
(* value other than "NA" only when the text contains a substring of the    *)
(* bracketed form (ddd) ddd-dddd.                                          *)
(***************************************************************************)
C7_EnhancedPhoneBracketedOnly ==
    (enhanced.called /\ enhanced.phone # NA) => Match(text, BracketPhonePattern).found

(***************************************************************************)
(* C8: when a 5-digit token follows the keyword "zip", "zip code" or       *)
(* "zip:" and another standalone 5-digit token stands earlier in the text, *)
(* extractZipCode returns the token that follows the keyword.              *)
(***************************************************************************)
KeywordZip(s) == Match(s, Cat(<<ZipLead, FiveDigitToken>>))

C8_ZipKeywordPreferred ==
    LET m == KeywordZip(text)
        first == Match(text, FiveDigitToken)
    IN (m.found /\ first.index < m.index) =>
        /\ basic.called => basic.zipCode = m.m1
        /\ enhanced.called => enhanced.zipCode = m.m1

(***************************************************************************)
(* C9: extractZipCode never returns a 5-digit token of an order-ID context *)
(* (right after "order id", "order number" or "order #") or one embedded   *)
(* in a phone-number pattern: for a text whose 5-digit tokens are all of   *)
(* that kind the result is "NA".                                           *)
(***************************************************************************)
ZipExcluded(s, i) ==
    \/ PrecededBy(OrderContextLead, s, i)
    \/ InsideMatch(BracketPhonePattern, s, i)

C9_ZipNotOrderOrPhone ==
    (\A i \in Positions(FiveDigitToken, text) : ZipExcluded(text, i)) =>
        /\ basic.called => basic.zipCode = NA
        /\ enhanced.called => enhanced.zipCode = NA

(***************************************************************************)
(* C10: for each of the four fields, a text with no qualifying substring   *)
(* (email: no '@' between two non-empty tokens; phone: no bracketed        *)
(* (ddd) ddd-dddd; ZIP: no 5 digits in a row; order ID: no 6 digits in a   *)
(* row) makes extractAllFields return "NA" for that field.                 *)
(***************************************************************************)
NonSpace(s, i) == i >= 1 /\ i <= Len(s) /\ CharAt(s, i) \notin WhiteSpace
HasEmailShape(s) ==
    \E i \in 1..Len(s) : CharAt(s, i) = "@" /\ NonSpace(s, i - 1) /\ NonSpace(s, i + 1)
HasDigitRun(s, n) == Match(s, Exactly(Chr(Digit), n)).found

NothingFromNothing(s, r) ==
    /\ ~HasEmailShape(s) => r.email = NA
    /\ ~Match(s, BracketPhonePattern).found => r.phone = NA
    /\ ~HasDigitRun(s, 5) => r.zipCode = NA
    /\ ~HasDigitRun(s, 6) => r.orderId = NA

C10_NoCandidateGivesNA ==
    /\ basic.called => NothingFromNothing(text, basic)
    /\ enhanced.called => NothingFromNothing(text, enhanced)

(***************************************************************************)
(* C11: for the empty string and for every text of white space only,       *)
(* extractAllFields, basic and enhanced, returns "NA" in all four fields   *)
(* (the extractors are total on strings: no call throws).                  *)
(***************************************************************************)
OnlyWhiteSpace(s) == \A i \in 1..Len(s) : CharAt(s, i) \in WhiteSpace

AllNA(r) == r.email = "NA" /\ r.phone = "NA" /\ r.zipCode = "NA" /\ r.orderId = "NA"

C11_BlankGivesAllNA ==
    OnlyWhiteSpace(text) =>
        /\ basic.called => AllNA(basic)
        /\ enhanced.called => AllNA(enhanced)

\* both extractors have answered for a text of blanks, a tab and a newline
C11_BlankExtracted == text = " \n\t " /\ basic.called /\ enhanced.called

(***************************************************************************)
(* C13: each of the four fields extractAllFields returns, basic and        *)
(* enhanced, is "NA" or occurs in the text as a contiguous substring.      *)
(***************************************************************************)
FieldNames == {"email", "phone", "zipCode", "orderId"}

LiteralFields(s, r) == \A f \in FieldNames : r[f] = "NA" \/ Includes(s, r[f])

MatchesWhole(re, sub) == Run(<<re, At({Len(sub) + 1})>>, sub, 1, NoCap).ok

QualifiesBasic(sub) == MatchesWhole(BasicEmailPattern, sub)
QualifiesEnhanced(sub) == MatchesWhole(EnhancedEmailPattern, sub) /\ ValidEmail(sub)

QualifyingStarts(Q(_), s) == {i \in 1..Len(s) : \E j \in i..Len(s) : Q(SubSeq(s, i, j))}

LeftmostQualifying(Q(_), s, v) ==
    LET starts == QualifyingStarts(Q, s)
    IN IF starts = {} THEN v = "NA"
       ELSE LET first == CHOOSE i \in starts : \A j \in starts : i <= j
            IN v # "NA" /\ Q(v) /\ SubSeq(s, first, first + Len(v) - 1) = v

OneAtSign(v) ==
    v = "NA" \/ (SplitLength(v, "@") = 2 /\ CharAt(v, 1) # "@" /\ CharAt(v, Len(v)) # "@")

BasicEmailLeftmost == basic.called => LeftmostQualifying(QualifiesBasic, text, basic.email)
EnhancedEmailLeftmost ==
    enhanced.called => LeftmostQualifying(QualifiesEnhanced, text, enhanced.email)
EmailHasOneAtSign ==
    /\ basic.called => OneAtSign(basic.email)
    /\ enhanced.called => OneAtSign(enhanced.email)

C14_EmailLeftmostQualifying ==
    BasicEmailLeftmost /\ EnhancedEmailLeftmost /\ EmailHasOneAtSign

(***************************************************************************)
(* C15: when the backend was available and its answer has a non-empty      *)
(* emails, phone_numbers or order_ids list, the combined email, phone or   *)
(* orderId of hybridExtraction is the first value of the backend's list,   *)
(* in preference to what the regex found for that field.                   *)
(***************************************************************************)
BackendValueWins(field, list) ==
    hybrid.fastapi[list] # <<>> => hybrid.combined[field] = hybrid.fastapi[list][1]

C15_BackendValuePreferred ==
    (hybrid.pc = "done" /\ hybrid.fastapi.defined) =>
        /\ BackendValueWins("email", "emails")
        /\ BackendValueWins("phone", "phone_numbers")
        /\ BackendValueWins("orderId", "order_ids")

(***************************************************************************)
(* C16: with no FastAPI URL configured, or a health check that answers not *)
(* ok or fails, hybridExtraction never calls extractFields, its fastapi    *)
(* part is undefined, its combined fields are the first regex values ("NA" *)
(* for an empty regex list) and the promise does not reject; and POST      *)
(* /extract is only ever sent after a GET / that was answered ok.          *)
(***************************************************************************)
CallsOf(request) == {i \in 1..Len(backendCalls) : backendCalls[i].request = request}

FallsBack ==
    \/ fastApiUrl = ""
    \/ \E i \in CallsOf("GET /") : backendCalls[i].answer \in {"notOk", "failed"}

RegexAlone ==
    LET regex == RegexExtractFields(text)
    IN /\ hybrid.combined.email = FirstOrNA(regex.emails)
       /\ hybrid.combined.phone = FirstOrNA(regex.phone_numbers)
       /\ hybrid.combined.orderId = FirstOrNA(regex.order_ids)
       /\ hybrid.combined.zipCode = EnhancedExtractZipCode(text)

C16_FallsBackToRegex ==
    /\ FallsBack =>
          /\ CallsOf("POST /extract") = {}
          /\ ~hybrid.fastapi.defined
          /\ hybrid.pc = "done" => hybrid.combined.defined /\ RegexAlone
          /\ hybrid.pc # "rejected"
    /\ \A i \in CallsOf("POST /extract") :
          \E j \in CallsOf("GET /") : j < i /\ backendCalls[j].answer = "ok"

\* a configured backend failed its health check and the regex email was returned
C16_FellBack ==
    /\ hybrid.pc = "done"
    /\ fastApiUrl # ""
    /\ backendCalls = <<[request |-> "GET /", answer |-> "failed"]>>
    /\ hybrid.combined.email = "a@b.co"
    /\ hybrid.combined.phone = "NA"

(***************************************************************************)
(* C17: after any sequence of POST and DELETE /api/conversations requests, *)
(* failed ones included, every extracted_fields row references a           *)
(* conversation that exists, and no conversation has more than one         *)
(* extracted_fields row.                                                   *)
(***************************************************************************)
FieldsRowsOf(id) == {i \in 1..Len(extracted_fields) : extracted_fields[i].conversationId = id}

C17_FieldsReferToConversations ==
    /\ \A i \in 1..Len(extracted_fields) :
          HasConversation(conversations, extracted_fields[i].conversationId)
    /\ \A k \in 1..Len(conversations) : Cardinality(FieldsRowsOf(conversations[k].id)) <= 1

\* a POST has just failed; two conversations are stored, one of them with fields
C17_AfterFailedPost ==
    /\ response.route = "POST /api/conversations"
    /\ response.status = 500
    /\ Len(conversations) = 2
    /\ Len(extracted_fields) = 1

(***************************************************************************)
(* C18: a DELETE /api/conversations?id=X answered 200 removes conversation *)
(* X together with its extracted_fields rows and leaves every other row as *)
(* it was; after it GET /api/conversations/X answers 404 and no order of   *)
(* GET /api/conversations lists X.  For an id that is not stored the       *)
(* handler answers 200 (the database not failing) and changes nothing.     *)
(***************************************************************************)
DeletedNow(x) ==
    /\ response'.route = "DELETE /api/conversations"
    /\ response'.status = 200
    /\ response'.request = JStr(x)

ListedIds(convs, fields) ==
    UNION {{rows[i].id : i \in 1..Len(rows)} : rows \in DbGetConversations(convs, fields)}

DeleteFrame(x) ==
    /\ conversations' = SelectSeq(conversations, LAMBDA c : c.id # x)
    /\ extracted_fields' = SelectSeq(extracted_fields, LAMBDA f : f.conversationId # x)
    /\ ~HasConversation(conversations', x)
    /\ \A i \in 1..Len(extracted_fields') : extracted_fields'[i].conversationId # x
    /\ ConversationGET(conversations', extracted_fields', x).status = 404
    /\ x \notin ListedIds(conversations', extracted_fields')
    /\ ~HasConversation(conversations, x) => UNCHANGED <<conversations, extracted_fields>>

\* what the handler does with the id of no stored conversation
DeleteOfNothing(x) ==
    LET out == ConversationsDELETE(conversations, extracted_fields, JStr(x), FALSE)
    IN /\ out.response.status = 200
       /\ out.conversations = conversations
       /\ out.extracted_fields = extracted_fields

C18_DeleteRemovesBothRows ==
    [][\A x \in GeneratedIds \cup {UnknownId} :
          /\ DeletedNow(x) => DeleteFrame(x)
          /\ ~HasConversation(conversations, x) => DeleteOfNothing(x)]_vars

\* a DELETE of a stored conversation was answered 200 and another conversation stays
C18_DeletedOne ==
    /\ response.route = "DELETE /api/conversations"
    /\ response.status = 200
    /\ response.request \in {JStr(id) : id \in GeneratedIds}
    /\ Len(conversations) = 1
    /\ Len(extracted_fields) = 1
    /\ JStr(conversations[1].id) # response.request

(***************************************************************************)
(* C19: POST /api/extract answers 400 with an error body exactly when the  *)
(* body's text is missing, not a string or empty; for every other text it  *)
(* answers 200 with the four fields of the enhanced extractAllFields(text) *)
(* and metadata whose textLength is text.length and whose extractionMethod *)
(* is 'regex'.                                                             *)
(***************************************************************************)
TextGiven(body) == body.kind = "object" /\ body.text.j = "string" /\ body.text.s # ""

AnsweredAsClaimed ==
    LET body == response.request
    IN IF TextGiven(body)
       THEN LET fields == EnhancedExtractAllFields(body.text.s)
            IN /\ response.status = 200
               /\ response.body.email = fields.email
               /\ response.body.phone = fields.phone
               /\ response.body.zipCode = fields.zipCode
               /\ response.body.orderId = fields.orderId
               /\ response.body.metadata.textLength = Len(body.text.s)
               /\ response.body.metadata.extractionMethod = "regex"
       ELSE /\ response.status = 400
            /\ DOMAIN response.body = {"error"}

\* the claim for the bodies that are JSON objects
ObjectBodiesAnsweredAsClaimed ==
    (response.route = "POST /api/extract" /\ response.request.kind = "object")
        => AnsweredAsClaimed

C19_ExtractValidatesText == response.route = "POST /api/extract" => AnsweredAsClaimed

Lacks(body) ==
    \/ body.kind # "object"
    \/ body.title.j = "undefined"
    \/ body.content.j = "undefined"
    \/ body.extractedFields.j = "undefined"

\* what the handler does, on the rows now stored, with a body and any generated id
RefusedUntouched(body) ==
    \A id \in GeneratedIds, fault \in {"none", "createConversation", "createExtractedFields"} :
        LET out == ConversationsPOST(conversations, extracted_fields, body, id, fault, now)
        IN /\ out.response.status = 400
           /\ DOMAIN out.response.body = {"error"}
           /\ out.conversations = conversations
           /\ out.extracted_fields = extracted_fields

\* the claim for the bodies that are JSON objects, with a falsy title, content or
\* extractedFields in place of a missing one as well
ObjectBodiesRefusedUntouched ==
    \A body \in ConversationBodies :
        (/\ body.kind = "object"
         /\ ~Truthy(body.title) \/ ~Truthy(body.content) \/ ~Truthy(body.extractedFields))
            => RefusedUntouched(body)

\* whatever the answer, a body that lacks a field leaves the tables as they were
LackingBodiesStoreNothing ==
    \A body \in ConversationBodies, id \in GeneratedIds,
       fault \in {"none", "createConversation", "createExtractedFields"} :
        Lacks(body) =>
            LET out == ConversationsPOST(conversations, extracted_fields, body, id, fault, now)
            IN out.conversations = conversations /\ out.extracted_fields = extracted_fields

C21_MissingFieldsRefused ==
    /\ (response.route = "POST /api/conversations" /\ Lacks(response.request))
          => response.status = 400
    /\ \A body \in ConversationBodies : Lacks(body) => RefusedUntouched(body)

(***************************************************************************)
(* C22: for every stored conversation, GET /api/conversations and          *)
(* GET /api/conversations/[id] return the email, phone, zipCode and        *)
(* orderId that were passed when it was created, with "NA" in place of any *)
(* field that is missing, null or empty; no returned field is ever empty   *)
(* or undefined, and GET /api/conversations/[id] answers 404 for an id     *)
(* that is not stored.                                                     *)
(***************************************************************************)
\* a field as the claim has it returned
PassedOrNA(v) == IF v.j \in {"undefined", "null"} \/ v = JStr("") THEN JStr(NA) ELSE v

PassedFields(ef) ==
    [email |-> PassedOrNA(ef.email), phone |-> PassedOrNA(ef.phone),
     zipCode |-> PassedOrNA(ef.zipCode), orderId |-> PassedOrNA(ef.orderId)]

\* the extractedFields GET /api/conversations/[id] returns
ReturnedById(convs, fields, id) == ConversationGET(convs, fields, id).body.item.extractedFields

\* the extractedFields that the orders of GET /api/conversations return for id
ReturnedInList(convs, fields, id) ==
    UNION {{ConversationsGET(rows).body.list[i].item.extractedFields :
              i \in {k \in 1..Len(rows) : rows[k].id = id}} :
           rows \in DbGetConversations(convs, fields)}

NoFieldEmpty(ef) ==
    \A name \in {"email", "phone", "zipCode", "orderId"} :
        ef[name].j = "string" /\ ef[name].s # ""

\* the answers of the two GETs on the rows convs, fields
GetsWellFormed(convs, fields) ==
    \A id \in GeneratedIds \cup {UnknownId} :
        IF HasConversation(convs, id)
        THEN /\ ConversationGET(convs, fields, id).status = 200
             /\ NoFieldEmpty(ReturnedById(convs, fields, id))
             /\ \A ef \in ReturnedInList(convs, fields, id) : NoFieldEmpty(ef)
        ELSE /\ ConversationGET(convs, fields, id).status = 404
             /\ ReturnedInList(convs, fields, id) = {}

\* id is stored by this step
CreatedNow(id) == ~HasConversation(conversations, id) /\ HasConversation(conversations', id)

\* a conversation is returned with the fields passed when this step created it
ReturnsPassed(id) ==
    /\ response'.route = "POST /api/conversations"
    /\ ReturnedById(conversations', extracted_fields', id)
          = PassedFields(response'.request.extractedFields)
    /\ ReturnedInList(conversations', extracted_fields', id)
          = {PassedFields(response'.request.extractedFields)}

\* a conversation that stays stored is returned with the fields it was returned with
ReturnsSame(id) ==
    /\ ReturnedById(conversations', extracted_fields', id)
          = ReturnedById(conversations, extracted_fields, id)
    /\ ReturnedInList(conversations', extracted_fields', id)
          = ReturnedInList(conversations, extracted_fields, id)

\* the claim for the conversations whose extracted_fields row was written
SavedFieldsReturned ==
    [][\A id \in GeneratedIds :
          /\ (CreatedNow(id) /\ FieldsRowsOf(id)' # {}) => ReturnsPassed(id)
          /\ (HasConversation(conversations, id) /\ HasConversation(conversations', id))
                => ReturnsSame(id)
          /\ GetsWellFormed(conversations', extracted_fields')]_vars

C22_GetReturnsPassedFields ==
    [][/\ \A id \in GeneratedIds :
             /\ CreatedNow(id) => ReturnsPassed(id)
             /\ (HasConversation(conversations, id) /\ HasConversation(conversations', id))
                   => ReturnsSame(id)
       /\ GetsWellFormed(conversations, extracted_fields)
       /\ GetsWellFormed(conversations', extracted_fields')]_vars

(***************************************************************************)
(* C23: at any time at most one processConversation run is in flight in    *)
(* the page, and isProcessing is true for as long as any run is in flight: *)
(* a text submit is refused while isProcessing is true, and a file whose   *)
(* asynchronous read completes while an extraction is running does not     *)
(* start a second extraction.                                              *)
(***************************************************************************)
InFlight == {r \in 1..Len(runs) : runs[r].pc # "done"}

\* the part on text submits: a text submit starts a run only while isProcessing is false
TextSubmitsRefused ==
    [][(Len(runs') > Len(runs) /\ runs'[Len(runs')].fileName = "") => ~page.isProcessing]_vars

C23_OneRunAtATime ==
    /\ Cardinality(InFlight) <= 1
    /\ InFlight # {} => page.isProcessing

(***************************************************************************)
(* C24: every processConversation run eventually sets isProcessing and     *)
(* isLoading back to false, whether the extraction request fails, the save *)
(* request fails, or both succeed (every fetch being answered or failing   *)
(* in the end); the UI never stays in the processing state after the run   *)
(* has ended.                                                              *)
(***************************************************************************)
RunInFlight(r) == r <= Len(runs) /\ runs[r].pc # "done"
RunEnded(r) == r <= Len(runs) /\ runs[r].pc = "done"

C24_RunsEndProcessing ==
    /\ \A r \in 1..MaxRuns : RunInFlight(r) ~> RunEnded(r)
    /\ [][\A r \in 1..MaxRuns :
             (RunInFlight(r) /\ RunEnded(r)') => (~page'.isProcessing /\ ~page'.isLoading)]_vars
    /\ [](InFlight = {} => (~page.isProcessing /\ ~page.isLoading))

\* two runs that overlapped have ended, one with a save that failed and one with an
\* extraction that failed or a save that succeeded
C24_RunsEnded ==
    /\ InFlight = {} /\ Len(runs) >= 2
    /\ ~page.isProcessing /\ ~page.isLoading
    /\ \E r \in 1..Len(runs) : runs[r].ended = "save failed"
    /\ \E r \in 1..Len(runs) : runs[r].ended \in {"extraction failed", "saved"}

(***************************************************************************)
(* C25: when the user selects conversation A and then conversation B, then *)
(* once both detail requests have completed, in whichever order their      *)
(* responses arrive, the displayed extractedFields and bulkResults are     *)
(* those of B, the conversation held in selectedConversationId.            *)
(***************************************************************************)
\* the conversation of the backend with the id
Stored(id) ==
    BackendConversations[CHOOSE i \in 1..Len(BackendConversations) :
                            BackendConversations[i].id = id]

\* what the page displays is the conversation with the id
Displays(id) ==
    /\ page.selectedConversationId = id
    /\ page.extractedFields = Stored(id).extractedFields
    /\ page.version = "final" => page.bulkResults = StoredResults(Stored(id).content)

\* the conversation selected last is the one that selectedConversationId holds
LastSelectedHeld ==
    Len(selects) > 0 => page.selectedConversationId = selects[Len(selects)].id

C25_LastSelectionDisplayed ==
    (/\ Len(selects) = 2
     /\ selects[1].id # selects[2].id
     /\ selects[1].outcome = "ok" /\ selects[2].outcome = "ok")
        => Displays(selects[2].id)

(***************************************************************************)
(* C26: one upload adds at most one entry to the conversation history      *)
(* however many conversations it contained: a processConversation run      *)
(* whose bulk extraction returns n >= 1 results sends exactly one save     *)
(* request, carrying the first result's four fields as the summary, and on *)
(* its success prepends that one entry and selects it; a run returning     *)
(* zero results sends no save request and adds no entry.                   *)
(***************************************************************************)
\* the runs whose save request succeeds in this step
SavedNow == {r \in 1..Len(runs) : runs[r].pc = "save" /\ runs'[r].ended = "saved"}

\* the runs whose extraction is answered with a list of results in this step
ExtractedNow ==
    {r \in 1..Len(runs) : runs[r].pc = "bulk" /\ runs'[r].pc # "bulk" /\ runs'[r].ended # "extraction failed"}

\* the save request of a run carries the first result's fields, "NA" for a missing one
CarriesFirst(run) ==
    /\ run.saveBody # Undefined
    /\ run.saveBody.extractedFields = PassedFields(run.results[1])
    /\ run.saveBody.content.value.results = run.results

C26_OneEntryPerUpload ==
    [][page.version = "final" =>
         /\ \A r \in 1..Len(runs) :
               /\ (r \in ExtractedNow /\ Len(page'.bulkResults) = 0) =>
                     (runs'[r].pc = "done" /\ runs'[r].saveBody = Undefined)
               /\ (r \in ExtractedNow /\ Len(page'.bulkResults) >= 1) =>
                     /\ runs'[r].pc = "save"
                     /\ runs'[r].results = page'.bulkResults
                     /\ CarriesFirst(runs'[r])
               /\ runs[r].pc # "bulk" =>
                     /\ runs'[r].pc = "save" =>
                           (runs[r].pc = "save" /\ runs'[r].saveBody = runs[r].saveBody)
               /\ r \in SavedNow =>
                     /\ page'.conversations = <<[id |-> runs'[r].saved]>> \o page.conversations
                     /\ page'.selectedConversationId = runs'[r].saved
         /\ (SavedNow = {} /\ page'.fetchConversations = page.fetchConversations)
               => page'.conversations = page.conversations
         /\ Cardinality(SavedNow) <= 1]_vars

\* the one run of the page has saved an upload of two conversations: its one entry
\* heads the history that was loaded
C26_UploadSaved ==
    /\ page.version = "final"
    /\ Len(runs) = 1 /\ runs[1].ended = "saved"
    /\ Len(page.bulkResults) = 2
    /\ Len(page.conversations) = Len(HistoryData) + 1
    /\ page.conversations[1].id = runs[1].saved
    /\ page.selectedConversationId = runs[1].saved

(***************************************************************************)
(* C27: for every input text, the enhanced extractOrderId never returns a  *)
(* value (other than "NA") shorter than 3 characters, nor a value that is  *)
(* exactly 5 digits or exactly 10 digits; when the first matching          *)
(* pattern's capture is rejected by this validation the later patterns are *)
(* still tried, and "NA" is returned only if none yields an accepted       *)
(* value.                                                                  *)
(***************************************************************************)
OnlyDigits(v) == \A i \in 1..Len(v) : CharAt(v, i) \in Digit

Accepted(v) == Len(v) >= 3 /\ ~(OnlyDigits(v) /\ Len(v) \in {5, 10})

\* what text.match gives for the k-th order pattern
OrderMatch(s, k) == Match(s, EnhancedOrderPatterns[k])

\* the patterns that match with an accepted capture
Yielding(s) ==
    {k \in 1..Len(EnhancedOrderPatterns) :
        OrderMatch(s, k).found /\ Accepted(OrderMatch(s, k).m1)}

\* the patterns that match with a capture the validation rejects
RejectedAt(s) ==
    {k \in 1..Len(EnhancedOrderPatterns) :
        OrderMatch(s, k).found /\ ~Accepted(OrderMatch(s, k).m1)}

Least(S) == CHOOSE k \in S : \A other \in S : k <= other

PhoneDigits(v) == Len(DigitsOf(v)) \in {10, 11}

NoDigitAt(s, i) == i < 1 \/ i > Len(s) \/ CharAt(s, i) \notin Digit

\* some substring of s, as it stands in s, matches the k-th phone pattern and has 10
\* or 11 digits; it is a number of its own, with no digit before or after it
ContainsFormat(s, k) ==
    \E i \in 1..Len(s) :
        /\ NoDigitAt(s, i - 1)
        /\ Run(<<EnhancedPhonePatterns[k],
                 At({e \in i..(Len(s) + 1) :
                        PhoneDigits(SubSeq(s, i, e - 1)) /\ NoDigitAt(s, e)})>>,
               s, i, NoCap).ok

\* the claim for the four formats of a fixed shape
ShapedFormatsFound ==
    enhanced.called =>
        /\ enhanced.phone # NA => PhoneDigits(enhanced.phone)
        /\ (\E k \in 1..4 : ContainsFormat(text, k)) => enhanced.phone # NA

C28_SupportedPhoneFound ==
    enhanced.called =>
        /\ enhanced.phone # NA => PhoneDigits(enhanced.phone)
        /\ (\E k \in 1..Len(EnhancedPhonePatterns) : ContainsFormat(text, k))
              => enhanced.phone # NA

(***************************************************************************)
(* C29: FastAPIClient reports failures as values, never as exceptions:     *)
(* when the request fails or the response status is not ok, extractFields  *)
(* resolves to empty emails, phone_numbers and order_ids lists with an     *)
(* error message, and processBatch resolves to a list with exactly one     *)
(* such error result per input conversation, of the same length as the     *)
(* input.                                                                  *)
(***************************************************************************)
IsErrorResult(r) ==
    /\ r.emails = <<>> /\ r.phone_numbers = <<>> /\ r.order_ids = <<>>
    /\ r.error # ""

C29_FailuresAreValues ==
    /\ client.pc # "rejected"
    /\ (client.pc = "resolved" /\ client.answer # "ok") =>
          IF client.method = "extractFields" THEN IsErrorResult(client.result)
          ELSE /\ Len(client.result) = Len(client.input)
               /\ \A i \in 1..Len(client.input) : IsErrorResult(client.result[i])

\* processBatch was called with two conversations and its request failed
C29_BatchFailed ==
    /\ client.pc = "resolved"
    /\ client.method = "processBatch"
    /\ client.answer \in {"notOk", "failed"}
    /\ Len(client.input) = 2
    /\ Len(client.result) = 2

====
